---- MODULE Spec2Model ----
(***************************************************************************)
(* A model of the boundary-tag allocator of sample/dlmalloc/malloc.c.      *)
(*                                                                         *)
(* Memory is a sparse map from byte addresses (multiples of 8) to words;   *)
(* an absent word reads 0.  The bins array of malloc_state lives in that   *)
(* map, because bin headers are addressed as chunks; the scalar fields of  *)
(* malloc_state are the record av.  Every public routine is one operator   *)
(* from a machine record (av, mem, os, ...) to a machine record, and one   *)
(* action applies it.                                                      *)
(*                                                                         *)
(* TLC integers are 32 bits wide, so size_t and pointers (64 bits in the   *)
(* build the scenarios of the specification assume, W = 8) are taken       *)
(* modulo SIZE_T_MOD = 2^30 and unsigned int (32 bits) modulo UINT_MOD =   *)
(* 2^26: every wrap of the code happens in the model at the scaled width.  *)
(***************************************************************************)
EXTENDS Integers, Sequences, FiniteSets, TLC

VARIABLES av, mem, os, live, lifo, last, dead, nops

vars == <<av, mem, os, live, lifo, last, dead, nops>>

(* ------------------------- integer widths ------------------------------ *)

SIZE_T_MOD == 1073741824
UINT_MOD == 67108864

U(x) == x % SIZE_T_MOD

\* a size_t value read as a (signed) long
Signed(x) == IF x >= SIZE_T_MOD \div 2 THEN x - SIZE_T_MOD ELSE x

\* x & ~(a - 1), a a power of two
AlignDown(x, a) == x - (x % a)

\* (x + (a - 1)) & ~(a - 1) in size_t arithmetic
AlignUp(x, a) == AlignDown(U(x + (a - 1)), a)

\* x | b for a single bit b
OrBit(x, b) == IF (x \div b) % 2 = 1 THEN x ELSE x + b

\* x & ~b for a single bit b
ClearBit(x, b) == IF (x \div b) % 2 = 1 THEN x - b ELSE x

\* a * b in size_t arithmetic, without leaving the 32-bit range
RECURSIVE MulMod(_, _)
MulMod(a, b) ==
  IF b = 0 THEN 0
  ELSE LET h == MulMod(a, b \div 2)
       IN  U(U(2 * h) + (IF b % 2 = 1 THEN a ELSE 0))

(* ------------------------- compile-time constants ---------------------- *)

SIZE_SZ == 8
MALLOC_ALIGNMENT == 2 * SIZE_SZ
MALLOC_ALIGN_MASK == MALLOC_ALIGNMENT - 1
MORECORE_FAILURE == SIZE_T_MOD - 1
MMAP_AS_MORECORE_SIZE == 1048576
DEFAULT_SYS_PAGE_SIZE == 4096
DEFAULT_MXFAST == 64
DEFAULT_TRIM_THRESHOLD == 262144
DEFAULT_TOP_PAD == 0
DEFAULT_MMAP_THRESHOLD == 262144
DEFAULT_MMAP_MAX == 65536
MIN_CHUNK_SIZE == 32
MINSIZE == AlignDown(MIN_CHUNK_SIZE + MALLOC_ALIGN_MASK, MALLOC_ALIGNMENT)
PREV_INUSE == 1
IS_MMAPPED == 2
NBINS == 96
NSMALLBINS == 32
SMALLBIN_WIDTH == 8
MIN_LARGE_SIZE == 256
BINMAPSHIFT == 5
BINMAPSIZE == NBINS \div 32
MAX_FAST_SIZE == 80
ANYCHUNKS_BIT == 1
FASTCHUNKS_BIT == 2
ENOMEM == 12
FASTBIN_CONSOLIDATION_THRESHOLD == DEFAULT_TRIM_THRESHOLD \div 2

\* more iterations than any list walk of a well-formed heap of the model takes
LoopFuel == 40

chunk2mem(p) == U(p + 2 * SIZE_SZ)
mem2chunk(m) == U(m - 2 * SIZE_SZ)
aligned_OK(m) == m % MALLOC_ALIGNMENT = 0

\* a faulty variant of the range check: no request is refused
REQUEST_OUT_OF_RANGE_never(req) == FALSE

REQUEST_OUT_OF_RANGE(req) == req >= U(0 - 2 * MINSIZE)

request2size(req) ==
  IF U(req + SIZE_SZ + MALLOC_ALIGN_MASK) < MINSIZE THEN MINSIZE
  ELSE AlignDown(U(req + SIZE_SZ + MALLOC_ALIGN_MASK), MALLOC_ALIGNMENT)

\* a faulty variant of the small-bin test: every size is taken for a large one
in_smallbin_range_never(sz) == FALSE

in_smallbin_range(sz) == sz < MIN_LARGE_SIZE

smallbin_index(sz) == (sz % UINT_MOD) \div 8

\* bit 3, 2 or 1 of ((x - c) >> 16) in unsigned int arithmetic
NlzStep(x, c, b) == IF (((x - c) \div 65536) \div b) % 2 = 1 THEN b ELSE 0

Shl(x, n) == (x * 2^n) % UINT_MOD

largebin_index(size) ==
  LET sz == size % UINT_MOD
      x0 == sz \div 256
  IN  IF x0 >= 65536 THEN NBINS - 1
      ELSE LET n1 == NlzStep(x0, 256, 8)
               x1 == Shl(x0, n1)
               m1 == NlzStep(x1, 4096, 4)
               n2 == n1 + m1
               x2 == Shl(x1, m1)
               m2 == NlzStep(x2, 16384, 2)
               n3 == n2 + m2
               x3 == Shl(x2, m2) \div 16384
               \* x & ~(x >> 1) for x in 0 .. 3
               m  == 13 - n3 + (IF x3 = 3 THEN 2 ELSE x3)
           IN  NSMALLBINS + 4 * m + ((sz \div 2^(m + 6)) % 4)

bin_index(sz) ==
  IF in_smallbin_range(sz) THEN smallbin_index(sz) ELSE largebin_index(sz)

\* a faulty variant of the fast-bin index: all sizes share the first fast bin
fastbin_index_flat(sz) == 0

fastbin_index(sz) == (((sz % UINT_MOD) \div 8) - 2) % UINT_MOD

NFASTBINS == fastbin_index(request2size(MAX_FAST_SIZE)) + 1

(* ------------------------- memory and the system ----------------------- *)

\* address of bins[0] of the static malloc_state
AV_BINS == 4096

\* where anonymous mappings are placed
MMAP_BASE == 4194304

Rd(m, a) == IF a \in DOMAIN m THEN m[a] ELSE 0

MemSet(m, a, v) ==
  IF v = 0 THEN [x \in DOMAIN m \ {a} |-> m[x]]
  ELSE IF a \in DOMAIN m THEN [m EXCEPT ![a] = v]
  ELSE (a :> v) @@ m

\* the word at a lies in the static state, the break region or a mapping
Mapped(s, a) ==
  \/ a >= AV_BINS /\ a < AV_BINS + 16 * NBINS
  \/ a >= s.os.brk0 /\ a + SIZE_SZ <= s.os.brk
  \/ \E r \in s.os.maps : a >= r[1] /\ a + SIZE_SZ <= r[1] + r[2]

\* a store; outside mapped memory it faults
Wr(s, a, v) ==
  IF Mapped(s, a) THEN [s EXCEPT !.mem = MemSet(@, a, v)]
  ELSE [s EXCEPT !.fault = TRUE]

\* the two flags held in the low bits of max_fast
have_anychunks(a) == a.max_fast % 2 = 1
have_fastchunks(a) == (a.max_fast \div 2) % 2 = 1

\* sbrk(inc), inc a signed long given as its size_t residue
sbrk(s, inc) ==
  LET d   == Signed(inc)
      new == s.os.brk + d
      f   == s.fsys \/ have_fastchunks(s.av)
  IN  IF d = 0 THEN [s EXCEPT !.r = s.os.brk, !.nsys = @ + 1, !.fsys = f]
      ELSE IF new > s.os.lim \/ new < s.os.brk0
        THEN [s EXCEPT !.r = MORECORE_FAILURE, !.nsys = @ + 1, !.fsys = f]
      ELSE [s EXCEPT !.r = s.os.brk, !.os.brk = new, !.nsys = @ + 1, !.fsys = f,
                     !.mem = IF d > 0 THEN @
                             ELSE [x \in {y \in DOMAIN @ :
                                            ~(y >= new /\ y < s.os.brk)} |-> @[x]]]

\* another user of the break calls sbrk(os.plan.inc) just before the call of
\* the system numbered os.plan.at that the routine under way makes
foreign_sbrk(s) ==
  IF s.os.plan.inc > 0 /\ s.nsys = s.os.plan.at
     /\ s.os.brk + s.os.plan.inc <= s.os.lim
    THEN [s EXCEPT !.os.brk = @ + s.os.plan.inc,
                   !.os.foreign = @ \cup {<<s.os.brk, s.os.plan.inc>>},
                   !.os.plan.inc = 0]
    ELSE s

\* the break is shared: MORECORE is sbrk, after whatever others did to the break
MORECORE(s, inc) == sbrk(foreign_sbrk(s), inc)

MapEnd(maps) ==
  IF maps = {} THEN MMAP_BASE
  ELSE LET top == CHOOSE r \in maps : \A q \in maps : q[1] <= r[1]
       IN  top[1] + top[2]

\* mmap(0, size, ...) of anonymous memory
MMAP(s, size) ==
  IF ~s.os.mok \/ MapEnd(s.os.maps) + size >= SIZE_T_MOD \div 2
    THEN [s EXCEPT !.r = MORECORE_FAILURE, !.nsys = @ + 1,
                   !.fsys = @ \/ have_fastchunks(s.av)]
  ELSE [s EXCEPT !.r = MapEnd(s.os.maps), !.nsys = @ + 1,
                 !.fsys = @ \/ have_fastchunks(s.av),
                 !.os.maps = @ \cup {<<MapEnd(s.os.maps), size>>}]

\* munmap(addr, len): the mappings inside [addr, addr + len) go away
munmap(s, addr, len) ==
  LET gone == {r \in s.os.maps : r[1] >= addr /\ r[1] + r[2] <= addr + len}
  IN  [s EXCEPT !.os.maps = @ \ gone, !.nsys = @ + 1,
                !.mem = [x \in {y \in DOMAIN @ :
                           ~\E r \in gone : y >= r[1] /\ y < r[1] + r[2]} |-> @[x]]]

(* ------------------------- chunk fields -------------------------------- *)

prev_size(s, p) == Rd(s.mem, p)
head(s, p) == Rd(s.mem, U(p + SIZE_SZ))
fd(s, p) == Rd(s.mem, U(p + 2 * SIZE_SZ))
bk(s, p) == Rd(s.mem, U(p + 3 * SIZE_SZ))

prev_inuse(s, p) == head(s, p) % 2 = 1
chunk_is_mmapped(s, p) == (head(s, p) \div 2) % 2 = 1
chunksize(s, p) == AlignDown(head(s, p), 4)
chunk_at_offset(p, sz) == U(p + sz)
next_chunk(s, p) == U(p + ClearBit(head(s, p), PREV_INUSE))
inuse_bit_at_offset(s, p, sz) == head(s, U(p + sz)) % 2 = 1
inuse(s, p) == prev_inuse(s, next_chunk(s, p))

set_prev_size(s, p, v) == Wr(s, p, v)
set_head(s, p, v) == Wr(s, U(p + SIZE_SZ), v)
set_fd(s, p, v) == Wr(s, U(p + 2 * SIZE_SZ), v)
set_bk(s, p, v) == Wr(s, U(p + 3 * SIZE_SZ), v)
set_head_size(s, p, sz) == set_head(s, p, (head(s, p) % 2) + sz)
set_foot(s, p, sz) == set_prev_size(s, U(p + sz), sz)
set_inuse_bit_at_offset(s, p, sz) ==
  set_head(s, U(p + sz), OrBit(head(s, U(p + sz)), PREV_INUSE))

bin_at(i) == AV_BINS + 16 * i - 2 * SIZE_SZ
unsorted_chunks == bin_at(1)
initial_top == unsorted_chunks

\* unlink(P, BK, FD)
unlink(s, p) ==
  LET FD == fd(s, p)
      BK == bk(s, p)
  IN  set_fd(set_bk(s, FD, BK), BK, FD)

(* ------------------------- flags held in max_fast ----------------------- *)

set_anychunks(s) == [s EXCEPT !.av.max_fast = OrBit(@, ANYCHUNKS_BIT)]
\* a faulty variant: ANYCHUNKS_BIT is left as it is
set_fastchunks_only(s) == [s EXCEPT !.av.max_fast = OrBit(@, FASTCHUNKS_BIT)]

set_fastchunks(s) ==
  [s EXCEPT !.av.max_fast = OrBit(OrBit(@, FASTCHUNKS_BIT), ANYCHUNKS_BIT)]
clear_fastchunks(s) == [s EXCEPT !.av.max_fast = ClearBit(@, FASTCHUNKS_BIT)]
set_max_fast(s, v) ==
  [s EXCEPT !.av.max_fast =
     (IF v = 0 THEN SMALLBIN_WIDTH ELSE request2size(v)) + (@ % 4)]
contiguous(a) == a.morecore_properties % 2 = 1

\* assert(c)
Assert_(s, c) == IF c THEN s ELSE [s EXCEPT !.afail = TRUE]

(* ------------------------- initialisation ------------------------------ *)

\* the fd and bk words of bins 1 .. NBINS-1, each pointing at its own bin
BinLinks ==
  [a \in {AV_BINS + 8 * k : k \in 2 .. (2 * NBINS - 1)} |->
     bin_at((a - AV_BINS) \div 16)]

malloc_init_state(s) ==
  set_max_fast(
    [s EXCEPT !.mem = BinLinks @@ @,
              !.av.top_pad = DEFAULT_TOP_PAD,
              !.av.n_mmaps_max = DEFAULT_MMAP_MAX,
              !.av.mmap_threshold = DEFAULT_MMAP_THRESHOLD,
              !.av.trim_threshold = DEFAULT_TRIM_THRESHOLD,
              !.av.morecore_properties = OrBit(@, 1),
              !.av.top = initial_top,
              !.av.pagesize = DEFAULT_SYS_PAGE_SIZE],
    DEFAULT_MXFAST)


\* a routine has produced its result, or cannot go on
Done(s) == s.path # "" \/ s.hung \/ s.fault

(* ------------------------- malloc_consolidate -------------------------- *)

\* the chunk p of the given size goes to the head of the unsorted list
consolidate_link(s, p, size) ==
  set_foot(
    set_fd(
      set_bk(
        set_head(
          set_bk(set_fd(s, unsorted_chunks, p), fd(s, unsorted_chunks), p),
          p, OrBit(size, PREV_INUSE)),
        p, unsorted_chunks),
      p, fd(s, unsorted_chunks)),
    p, size)

\* the body of the inner loop: merge fast-bin chunk p with its neighbours
\* and put it at the head of the unsorted list, or fold it into top
consolidate_chunk(s, p) ==
  LET size0     == ClearBit(head(s, p), PREV_INUSE)
      nextchunk == chunk_at_offset(p, size0)
      nextsize  == chunksize(s, nextchunk)
      back      == ~prev_inuse(s, p)
      prevsize  == prev_size(s, p)
      size1     == IF back THEN U(size0 + prevsize) ELSE size0
      p1        == IF back THEN U(p - prevsize) ELSE p
      s1        == IF back THEN unlink(s, p1) ELSE s
      nextinuse == inuse_bit_at_offset(s1, nextchunk, nextsize)
  IN  IF nextchunk # s1.av.top
        THEN IF nextinuse
               THEN consolidate_link(set_head(s1, nextchunk, nextsize), p1, size1)
               ELSE consolidate_link(unlink(set_head(s1, nextchunk, nextsize),
                                            nextchunk),
                                     p1, U(size1 + nextsize))
        ELSE [set_head(s1, p1, OrBit(U(size1 + nextsize), PREV_INUSE))
                EXCEPT !.av.top = p1]

\* do { nextp = p->fd; ... } while ((p = nextp) != 0)
RECURSIVE consolidate_chain(_, _, _)
consolidate_chain(s, p, fuel) ==
  IF fuel = 0 THEN [s EXCEPT !.hung = TRUE]
  ELSE IF fd(s, p) # 0
    THEN consolidate_chain(consolidate_chunk(s, p), fd(s, p), fuel - 1)
  ELSE consolidate_chunk(s, p)

\* a faulty variant: the bin is passed over
consolidate_bin_skipped(s, i) == s

\* if ((p = *fb) != 0) { *fb = 0; ... }
consolidate_bin(s, i) ==
  IF s.av.fastbins[i] # 0
    THEN consolidate_chain([s EXCEPT !.av.fastbins[i] = 0], s.av.fastbins[i], LoopFuel)
    ELSE s

\* do { ... } while (fb++ != maxfb); an index past the array is out of bounds
RECURSIVE consolidate_bins(_, _, _)
consolidate_bins(s, i, maxi) ==
  IF i >= NFASTBINS THEN [s EXCEPT !.fault = TRUE]
  ELSE IF i # maxi THEN consolidate_bins(consolidate_bin(s, i), i + 1, maxi)
  ELSE consolidate_bin(s, i)

malloc_consolidate(s) ==
  IF s.av.max_fast # 0
    THEN consolidate_bins([clear_fastchunks(s) EXCEPT !.ncons = @ + 1], 0,
                          fastbin_index(s.av.max_fast))
    ELSE malloc_init_state(s)

(* ------------------------- systrim ------------------------------------- *)

\* a faulty variant of the amount systrim takes back: half the pages it could
trim_extra_half(s, pad) ==
  LET pagesz   == s.av.pagesize
      top_size == chunksize(s, s.av.top)
      t        == U(U(U(top_size - pad) - MINSIZE) + (pagesz - 1))
  IN  IF t \div pagesz <= 2 THEN Signed(MulMod(U((t \div pagesz) - 1), pagesz))
      ELSE Signed(MulMod(((t \div pagesz) - 1) \div 2, pagesz))

\* a faulty variant: the quotient is not rounded up
trim_extra_floor(s, pad) ==
  LET pagesz   == s.av.pagesize
      top_size == chunksize(s, s.av.top)
      t        == U(U(top_size - pad) - MINSIZE)
  IN  Signed(MulMod(U((t \div pagesz) - 1), pagesz))

\* the amount systrim asks the system to take back, as a long
trim_extra(s, pad) ==
  LET pagesz   == s.av.pagesize
      top_size == chunksize(s, s.av.top)
      t        == U(U(U(top_size - pad) - MINSIZE) + (pagesz - 1))
  IN  Signed(MulMod(U((t \div pagesz) - 1), pagesz))

\* systrim once MORECORE(-extra) and MORECORE(0) have run
systrim_adjust(s, top, top_size, current_brk) ==
  IF s.r # MORECORE_FAILURE /\ Signed(U(current_brk - s.r)) # 0
    THEN [set_head([s EXCEPT !.av.sbrked_mem = U(@ - Signed(U(current_brk - s.r)))],
                   top,
                   OrBit(U(top_size - Signed(U(current_brk - s.r))), PREV_INUSE))
            EXCEPT !.r = 1]
    ELSE [s EXCEPT !.r = 0]

\* systrim once the first MORECORE(0) has run
systrim_release(s, top, top_size, extra) ==
  IF s.r = U(top + top_size)
    THEN systrim_adjust(MORECORE(MORECORE(s, U(0 - extra)), 0), top, top_size, s.r)
    ELSE [s EXCEPT !.r = 0]

\* ntrim counts the calls of systrim
systrim(s, pad) ==
  IF trim_extra(s, pad) > 0
    THEN systrim_release(MORECORE([s EXCEPT !.ntrim = @ + 1], 0), s.av.top,
                         chunksize(s, s.av.top), trim_extra(s, pad))
    ELSE [s EXCEPT !.r = 0, !.ntrim = @ + 1]

(* ------------------------- free ---------------------------------------- *)

\* if (chunksize(av->top) >= av->trim_threshold) systrim(av->top_pad, av)
free_trim_top(s) ==
  IF chunksize(s, s.av.top) >= s.av.trim_threshold
    THEN systrim(s, s.av.top_pad) ELSE s

\* a faulty variant: the limit follows the trim threshold in force
free_trim_tuned(s, size) ==
  IF size >= s.av.trim_threshold \div 2
    THEN free_trim_top(IF have_fastchunks(s.av) THEN malloc_consolidate(s) ELSE s)
    ELSE s

\* the end of free() of a large space: consolidate, then trim
free_trim(s, size) ==
  IF size >= FASTBIN_CONSOLIDATION_THRESHOLD
    THEN free_trim_top(IF have_fastchunks(s.av) THEN malloc_consolidate(s) ELSE s)
    ELSE s

\* the chunk p of the given size goes to the head of the unsorted list
free_link(s, p, size) ==
  set_foot(
    set_head(
      set_bk(set_fd(set_fd(set_bk(s, p, unsorted_chunks), p, fd(s, unsorted_chunks)),
                    unsorted_chunks, p),
             fd(s, unsorted_chunks), p),
      p, OrBit(size, PREV_INUSE)),
    p, size)

\* free() of a chunk that is neither fast-bin sized nor mapped: the state and
\* the size of the chunk after coalescing
free_coalesce(s, p0, size0) ==
  LET nextchunk == chunk_at_offset(p0, size0)
      nextsize  == chunksize(s, nextchunk)
      back      == ~prev_inuse(s, p0)
      prevsize  == prev_size(s, p0)
      size1     == IF back THEN U(size0 + prevsize) ELSE size0
      p         == IF back THEN U(p0 - prevsize) ELSE p0
      s1        == IF back THEN unlink(set_anychunks(s), p) ELSE set_anychunks(s)
      nextinuse == inuse_bit_at_offset(s1, nextchunk, nextsize)
  IN  IF nextchunk # s1.av.top
        THEN IF nextinuse
               THEN [st |-> free_link(set_head(s1, nextchunk, nextsize), p, size1),
                     size |-> size1]
               ELSE [st |-> free_link(unlink(set_head(s1, nextchunk, nextsize),
                                             nextchunk),
                                      p, U(size1 + nextsize)),
                     size |-> U(size1 + nextsize)]
        ELSE [st |-> [set_head(s1, p, OrBit(U(size1 + nextsize), PREV_INUSE))
                        EXCEPT !.av.top = p],
              size |-> U(size1 + nextsize)]

free_finish(x) == free_trim(x.st, x.size)

free_merge(s, p0, size0) == free_finish(free_coalesce(s, p0, size0))

free(s, m) ==
  LET p    == mem2chunk(m)
      size == chunksize(s, p)
      idx  == fastbin_index(size)
      offset == prev_size(s, p)
  IN  IF m = 0 THEN s
      ELSE IF size <= s.av.max_fast
        THEN IF idx >= NFASTBINS THEN [s EXCEPT !.fault = TRUE]
             ELSE [set_fd(set_fastchunks(s), p, s.av.fastbins[idx])
                     EXCEPT !.av.fastbins[idx] = p]
      ELSE IF ~chunk_is_mmapped(s, p) THEN free_merge(s, p, size)
      ELSE munmap([s EXCEPT !.av.n_mmaps = @ - 1,
                            !.av.mmapped_mem = U(@ - U(size + offset))],
                  U(p - offset), U(size + offset))

(* ------------------------- malloc -------------------------------------- *)

idx2block(i) == i \div 32
idx2pos(i) == i % 32

\* a faulty variant of mark_bin: the binmap is left as it is
mark_bin_never(s, i) == s

mark_bin(s, i) == [s EXCEPT !.av.binmap[idx2block(i)] = @ \cup {idx2pos(i)}]

\* errno = ENOMEM; return 0
Fail(s) == [s EXCEPT !.r = 0, !.path = "", !.os.errno = ENOMEM]

\* the chunk handed back, and how it was found
Return(s, p, how) == [s EXCEPT !.r = chunk2mem(p), !.path = how]

\* cut nb bytes off the front of the free chunk victim of the given size; the
\* remainder becomes the only chunk of the unsorted list
split_to_unsorted(s, victim, size, nb, small) ==
  set_foot(
    set_head(
      set_head(
        set_fd(
          set_bk(
            [set_fd(set_bk(s, unsorted_chunks, chunk_at_offset(victim, nb)),
                    unsorted_chunks, chunk_at_offset(victim, nb))
               EXCEPT !.av.last_remainder =
                        IF small THEN chunk_at_offset(victim, nb) ELSE @],
            chunk_at_offset(victim, nb), unsorted_chunks),
          chunk_at_offset(victim, nb), unsorted_chunks),
        victim, OrBit(nb, PREV_INUSE)),
      chunk_at_offset(victim, nb), OrBit(U(size - nb), PREV_INUSE)),
    chunk_at_offset(victim, nb), U(size - nb))

\* while (size < fwd->size) fwd = fwd->fd, size already or'ed with PREV_INUSE
RECURSIVE sorted_position(_, _, _, _)
sorted_position(s, size, fwd, fuel) ==
  IF fuel = 0 THEN 0
  ELSE IF size < head(s, fwd) THEN sorted_position(s, size, fd(s, fwd), fuel - 1)
  ELSE fwd

\* mark_bin; victim->bk = bck; victim->fd = fwd; fwd->bk = victim; bck->fd = victim
bin_link(s, victim, victim_index, fwd, bck) ==
  set_fd(set_bk(set_fd(set_bk(mark_bin(s, victim_index), victim, bck), victim, fwd),
                fwd, victim),
         bck, victim)

\* a faulty variant of the binning: the chunk is put in no bin
place_in_bin_dropped(s, victim, size) == s

\* a faulty variant of the binning: every chunk is linked at the bin's tail
place_in_bin_last(s, victim, size) ==
  bin_link(s, victim, bin_index(size), bin_at(bin_index(size)),
           bk(s, bin_at(bin_index(size))))

\* place the chunk just taken off the unsorted list in its bin
place_in_bin(s, victim, size) ==
  LET small == in_smallbin_range(size)
      victim_index == IF small THEN smallbin_index(size) ELSE largebin_index(size)
      bin    == bin_at(victim_index)
      first  == fd(s, bin)
      atTail == ~small /\ first # bin /\ size < head(s, bk(s, bin))
      sorted == ~small /\ first # bin /\ ~atTail /\ size >= MIN_LARGE_SIZE
      fwd    == IF atTail THEN bin
                ELSE IF sorted
                  THEN sorted_position(s, OrBit(size, PREV_INUSE), first, LoopFuel)
                ELSE first
      bck    == IF atTail THEN bk(s, bin)
                ELSE IF sorted THEN bk(s, fwd)
                ELSE bin
  IN  IF sorted /\ fwd = 0 THEN [s EXCEPT !.hung = TRUE]
      ELSE bin_link(s, victim, victim_index, fwd, bck)

\* a faulty variant: the chunk examined stays on the unsorted list
unsorted_remove_kept(s, bck) == s

\* unsorted_chunks(av)->bk = bck; bck->fd = unsorted_chunks(av)
unsorted_remove(s, bck) ==
  set_fd(set_bk(s, unsorted_chunks, bck), bck, unsorted_chunks)

\* a faulty variant of the drain: the last remainder is also split when it is
\* exactly MINSIZE larger than the request
RECURSIVE drain_unsorted_inclusive(_, _, _)
drain_unsorted_inclusive(s, nb, fuel) ==
  LET victim == bk(s, unsorted_chunks)
      bck    == bk(s, victim)
      size   == chunksize(s, victim)
  IN  IF Done(s) \/ victim = unsorted_chunks THEN s
      ELSE IF fuel = 0 THEN [s EXCEPT !.hung = TRUE]
      ELSE IF /\ in_smallbin_range(nb)
              /\ bck = unsorted_chunks
              /\ victim = s.av.last_remainder
              /\ size >= U(nb + MINSIZE)
        THEN Return(split_to_unsorted(s, victim, size, nb, TRUE), victim, "remainder")
      ELSE IF size = nb
        THEN Return(set_inuse_bit_at_offset(unsorted_remove(s, bck), victim, size),
                    victim, "unsorted")
      ELSE drain_unsorted_inclusive(place_in_bin(unsorted_remove(s, bck), victim, size), nb,
                          fuel - 1)

\* the loop over the unsorted list
RECURSIVE drain_unsorted(_, _, _)
drain_unsorted(s, nb, fuel) ==
  LET victim == bk(s, unsorted_chunks)
      bck    == bk(s, victim)
      size   == chunksize(s, victim)
  IN  IF Done(s) \/ victim = unsorted_chunks THEN s
      ELSE IF fuel = 0 THEN [s EXCEPT !.hung = TRUE]
      ELSE IF /\ in_smallbin_range(nb)
              /\ bck = unsorted_chunks
              /\ victim = s.av.last_remainder
              /\ size > U(nb + MINSIZE)
        THEN Return(split_to_unsorted(s, victim, size, nb, TRUE), victim, "remainder")
      ELSE IF size = nb
        THEN Return(set_inuse_bit_at_offset(unsorted_remove(s, bck), victim, size),
                    victim, "unsorted")
      ELSE drain_unsorted(place_in_bin(unsorted_remove(s, bck), victim, size), nb,
                          fuel - 1)

\* take victim, already unlinked, for a request of nb bytes
exhaust_or_split(s, victim, size, nb, small, how) ==
  Return(IF U(size - nb) < MINSIZE
           THEN set_inuse_bit_at_offset(s, victim, size)
           ELSE split_to_unsorted(s, victim, size, nb, small),
         victim, how)

\* a faulty variant of the scan of a large bin: the chunk at the bin's head, its
\* largest, is taken
scan_large_bin_head(s, bin, victim, nb, fuel) ==
  IF victim = bin THEN s
  ELSE exhaust_or_split(unlink(s, fd(s, bin)), fd(s, bin), chunksize(s, fd(s, bin)),
                        nb, FALSE, "largebin")

\* for (victim = last(bin); victim != bin; victim = victim->bk)
RECURSIVE scan_large_bin(_, _, _, _, _)
scan_large_bin(s, bin, victim, nb, fuel) ==
  IF victim = bin THEN s
  ELSE IF fuel = 0 THEN [s EXCEPT !.hung = TRUE]
  ELSE IF chunksize(s, victim) >= nb
    THEN exhaust_or_split(unlink(s, victim), victim, chunksize(s, victim), nb,
                          FALSE, "largebin")
  ELSE scan_large_bin(s, bin, bk(s, victim), nb, fuel - 1)

\* the next block at or after block whose map word is not empty, or BINMAPSIZE
RECURSIVE next_block(_, _)
next_block(s, block) ==
  IF block >= BINMAPSIZE THEN BINMAPSIZE
  ELSE IF s.av.binmap[block] # {} THEN block
  ELSE next_block(s, block + 1)

\* the lowest position above pos that is set in map
next_bit(map, pos) ==
  CHOOSE k \in map : k > pos /\ \A j \in map : j > pos => k <= j

\* the scan of the bins above the request's own; i is the bin inspected, pos the
\* position of bit (32 once it is shifted out), map the local copy of the word;
\* the walk to the next set bit is taken in one step
RECURSIVE scan_bins(_, _, _, _, _, _, _)
scan_bins(s, nb, i, block, map, pos, fuel) ==
  LET bin    == bin_at(i)
      victim == bk(s, bin)
      size   == chunksize(s, victim)
      bck    == bk(s, victim)
      b      == next_block(s, block + 1)
  IN  IF fuel = 0 THEN [s EXCEPT !.hung = TRUE]
      ELSE IF pos = 32 \/ \A k \in map : k < pos
        THEN IF b >= BINMAPSIZE THEN s
             ELSE scan_bins(s, nb, 32 * b, b, s.av.binmap[b], 0, fuel - 1)
      ELSE IF pos \notin map
        THEN scan_bins(s, nb, i + next_bit(map, pos) - pos, block, map,
                       next_bit(map, pos), fuel - 1)
      ELSE IF victim = bin
        THEN scan_bins([s EXCEPT !.av.binmap[block] = map \ {pos}], nb, i + 1,
                       block, map \ {pos}, pos + 1, fuel - 1)
      ELSE exhaust_or_split(
             set_fd(set_bk(Assert_(s, size >= nb), bin, bck), bck, bin),
             victim, size, nb, in_smallbin_range(nb), "binscan")

RECURSIVE malloc(_, _)

\* a faulty variant of malloc_exact: the small bin gives the chunk at its head
malloc_exact_head(s, nb) ==
  LET fidx   == fastbin_index(nb)
      bin    == bin_at(smallbin_index(nb))
      victim == fd(s, bin)
      fwd    == fd(s, victim)
  IN  IF nb <= s.av.max_fast /\ fidx >= NFASTBINS THEN [s EXCEPT !.fault = TRUE]
      ELSE IF nb <= s.av.max_fast /\ s.av.fastbins[fidx] # 0
        THEN Return([s EXCEPT !.av.fastbins[fidx] = fd(s, @)],
                    s.av.fastbins[fidx], "fastbin")
      ELSE IF in_smallbin_range(nb)
        THEN IF victim # bin
               THEN Return(set_bk(set_fd(set_inuse_bit_at_offset(s, victim, nb),
                                         bin, fwd),
                                  fwd, bin),
                           victim, "smallbin")
               ELSE s
      ELSE IF have_fastchunks(s.av) THEN malloc_consolidate(s)
      ELSE s

\* the request is served from its own fast bin or small bin; a large request
\* first consolidates the fast bins
malloc_exact(s, nb) ==
  LET fidx   == fastbin_index(nb)
      bin    == bin_at(smallbin_index(nb))
      victim == bk(s, bin)
      bck    == bk(s, victim)
  IN  IF nb <= s.av.max_fast /\ fidx >= NFASTBINS THEN [s EXCEPT !.fault = TRUE]
      ELSE IF nb <= s.av.max_fast /\ s.av.fastbins[fidx] # 0
        THEN Return([s EXCEPT !.av.fastbins[fidx] = fd(s, @)],
                    s.av.fastbins[fidx], "fastbin")
      ELSE IF in_smallbin_range(nb)
        THEN IF victim # bin
               THEN Return(set_fd(set_bk(set_inuse_bit_at_offset(s, victim, nb),
                                         bin, bck),
                                  bck, bin),
                           victim, "smallbin")
               ELSE s
      ELSE IF have_fastchunks(s.av) THEN malloc_consolidate(s)
      ELSE s

\* the scan of the request's own large bin
malloc_large(s, nb) ==
  IF Done(s) \/ in_smallbin_range(nb) THEN s
  ELSE scan_large_bin(s, bin_at(largebin_index(nb)),
                      bk(s, bin_at(largebin_index(nb))), nb, LoopFuel)

\* the scan of the bins above the request's own
malloc_scan(s, nb) ==
  LET idx == bin_index(nb) + 1
  IN  IF Done(s) THEN s
      ELSE scan_bins(s, nb, idx, idx2block(idx), s.av.binmap[idx2block(idx)],
                     idx2pos(idx), LoopFuel)

\* everything malloc tries before top
malloc_bins(s, nb) ==
  IF ~have_anychunks(s.av)
    THEN IF s.av.max_fast = 0 THEN malloc_consolidate(s) ELSE s
    ELSE malloc_scan(
           malloc_large(drain_unsorted(malloc_exact(s, nb), nb, LoopFuel), nb), nb)

(* ------------------------- sysmalloc ----------------------------------- *)

set_noncontiguous(s) == [s EXCEPT !.av.morecore_properties = ClearBit(@, 1)]

\* the chunk p of a fresh mapping of the given size, correction bytes into it
sys_mmap_place(s, p, size, correction) ==
  Return([set_head(set_prev_size(s, p, correction), p,
                   OrBit(U(size - correction), IS_MMAPPED))
            EXCEPT !.av.n_mmaps = @ + 1,
                   !.av.max_n_mmaps = IF s.av.n_mmaps + 1 > @ THEN s.av.n_mmaps + 1 ELSE @,
                   !.av.mmapped_mem = U(@ + size),
                   !.av.max_mmapped_mem =
                     IF U(s.av.mmapped_mem + size) > @
                       THEN U(s.av.mmapped_mem + size) ELSE @,
                   !.av.max_total_mem =
                     IF U(U(s.av.mmapped_mem + size) + s.av.sbrked_mem) > @
                       THEN U(U(s.av.mmapped_mem + size) + s.av.sbrked_mem) ELSE @],
         p, "mmap")

\* sysmalloc once MMAP has run for a request of its own
sys_mmapped(s, size) ==
  IF s.r = MORECORE_FAILURE THEN [s EXCEPT !.r = 0]
  ELSE IF chunk2mem(s.r) % MALLOC_ALIGNMENT > 0
    THEN sys_mmap_place(s, U(s.r + MALLOC_ALIGNMENT
                                 - (chunk2mem(s.r) % MALLOC_ALIGNMENT)),
                        size, MALLOC_ALIGNMENT - (chunk2mem(s.r) % MALLOC_ALIGNMENT))
  ELSE sys_mmap_place(s, s.r, size, 0)

\* the size of the mapping for a request of nb bytes
sys_mmap_size(s, nb) ==
  AlignDown(U(nb + SIZE_SZ + MALLOC_ALIGN_MASK + (s.av.pagesize - 1)), s.av.pagesize)

\* a request at or over the mmap threshold gets a mapping of its own
sys_mmap(s, nb) ==
  IF sys_mmap_size(s, nb) <= nb THEN s
  ELSE sys_mmapped(MMAP(s, sys_mmap_size(s, nb)), sys_mmap_size(s, nb))

\* the double fencepost at the end of an old top of old_size bytes, shrunk
sys_fenceposts(s, old_top, old_size) ==
  set_head(
    set_head(set_head(s, old_top, OrBit(old_size, PREV_INUSE)),
             chunk_at_offset(old_top, old_size), SIZE_SZ + PREV_INUSE),
    chunk_at_offset(old_top, U(old_size + SIZE_SZ)), SIZE_SZ + PREV_INUSE)

\* the double fencepost at the end of an old top that the new space does not
\* adjoin, and the release of what is left of the old top
sys_fence(s, old_top, old_size0) ==
  LET old_size == AlignDown(U(old_size0 - 3 * SIZE_SZ), MALLOC_ALIGNMENT)
  IN  IF old_size >= MINSIZE
        THEN [free([sys_fenceposts(s, old_top, old_size)
                      EXCEPT !.av.trim_threshold = SIZE_T_MOD - 1],
                   chunk2mem(old_top))
                EXCEPT !.av.trim_threshold = s.av.trim_threshold]
        ELSE sys_fenceposts(s, old_top, old_size)

\* what the second MORECORE call of a contiguous region gave: the state, the
\* end found and the correction kept
sys_corrected(s, brk, size, aligned_brk, correction) ==
  IF s.r = MORECORE_FAILURE
    THEN [st |-> MORECORE(s, 0), snd_brk |-> MORECORE(s, 0).r, correction |-> 0,
          aligned_brk |-> aligned_brk]
  ELSE IF s.r < brk
    THEN [st |-> set_noncontiguous(s), snd_brk |-> U(brk + size), correction |-> 0,
          aligned_brk |-> aligned_brk]
  ELSE [st |-> s, snd_brk |-> s.r, correction |-> correction,
        aligned_brk |-> aligned_brk]

\* the second MORECORE call of a contiguous region
sys_correct(s, brk, size, old_size) ==
  LET front_misalign == chunk2mem(brk) % MALLOC_ALIGNMENT
      corr0 == IF front_misalign > 0 THEN MALLOC_ALIGNMENT - front_misalign ELSE 0
      corr1 == U(corr0 + old_size)
      end_misalign == U(brk + size + corr1)
      corr2 == U(corr1 + AlignUp(end_misalign, s.av.pagesize) - end_misalign)
  IN  sys_corrected(MORECORE(Assert_(s, Signed(corr2) >= 0), corr2), brk, size,
                    U(brk + corr0), corr2)

\* what MORECORE(0) found as the end of a region that is not contiguous
sys_found_end(s, brk, size) ==
  [st |-> [s EXCEPT !.av.sbrked_mem = U(@ + s.r - brk - size)],
   snd_brk |-> s.r, correction |-> 0, aligned_brk |-> brk]

\* the end of a region that is not contiguous
sys_find_end(s, brk, snd0, size) ==
  IF snd0 = MORECORE_FAILURE
    THEN sys_found_end(MORECORE(Assert_(s, aligned_OK(chunk2mem(brk))), 0), brk, size)
    ELSE [st |-> Assert_(s, aligned_OK(chunk2mem(brk))), snd_brk |-> snd0,
          correction |-> 0, aligned_brk |-> brk]

\* top is set, and the correction is left out of sbrked_mem
sys_set_top_uncounted(x) ==
  set_head([x.st EXCEPT !.av.top = x.aligned_brk], x.aligned_brk,
           OrBit(U(x.snd_brk - x.aligned_brk + x.correction), PREV_INUSE))

\* top is set from the results of the second MORECORE call
sys_set_top(x) ==
  [set_head([x.st EXCEPT !.av.top = x.aligned_brk], x.aligned_brk,
            OrBit(U(x.snd_brk - x.aligned_brk + x.correction), PREV_INUSE))
     EXCEPT !.av.sbrked_mem = U(@ + x.correction)]

\* if (snd_brk != MORECORE_FAILURE) { ... }
sys_settle(x, old_top, old_size) ==
  IF x.snd_brk = MORECORE_FAILURE THEN x.st
  ELSE IF old_size # 0 THEN sys_fence(sys_set_top(x), old_top, old_size)
  ELSE sys_set_top(x)

\* the end of the new space, in the contiguous and the non-contiguous case
sys_ends(s, brk, snd0, size, old_end, old_size) ==
  IF contiguous(s.av)
    THEN sys_correct(IF old_size # 0
                       THEN [s EXCEPT !.av.sbrked_mem = U(@ + brk - old_end)]
                       ELSE s,
                     brk, size, old_size)
    ELSE sys_find_end(s, brk, snd0, size)

\* the new space does not simply extend the old top
sys_adjust(s, brk, snd0, size, old_top, old_size) ==
  sys_settle(
    sys_ends(IF contiguous(s.av) /\ old_size # 0
                /\ brk < chunk_at_offset(old_top, old_size)
               THEN set_noncontiguous(s) ELSE s,
             brk, snd0, size, chunk_at_offset(old_top, old_size), old_size),
    old_top, old_size)

\* the statistics sysmalloc keeps of the space obtained from MORECORE
sys_stats(s) ==
  [s EXCEPT !.av.max_sbrked_mem = IF s.av.sbrked_mem > @ THEN s.av.sbrked_mem ELSE @,
            !.av.max_total_mem =
              IF U(s.av.sbrked_mem + s.av.mmapped_mem) > @
                THEN U(s.av.sbrked_mem + s.av.mmapped_mem) ELSE @]

\* statistics, then the request is cut off the new top if it is now big enough
sys_finish(s, nb) ==
  LET p    == s.av.top
      size == chunksize(s, p)
      remainder == chunk_at_offset(p, nb)
  IN  IF size >= U(nb + MINSIZE)
        THEN Return(set_head(set_head([sys_stats(s) EXCEPT !.av.top = remainder], p,
                                      OrBit(nb, PREV_INUSE)),
                             remainder, OrBit(U(size - nb), PREV_INUSE)),
                    p, "system")
        ELSE Fail(sys_stats(s))

\* neither MORECORE nor MMAP gave space
sys_none(s, size) ==
  [st |-> s, brk |-> MORECORE_FAILURE, snd_brk |-> MORECORE_FAILURE, size |-> size]

\* sysmalloc once MMAP has run in place of MORECORE
sys_backup(s, size) ==
  IF s.r # MORECORE_FAILURE
    THEN [st |-> set_noncontiguous(s), brk |-> s.r, snd_brk |-> U(s.r + size),
          size |-> size]
    ELSE sys_none(s, size)

\* MORECORE failed or could not be called: MMAP is tried for size bytes
sys_fallback(s, nb, size) ==
  IF size > nb THEN sys_backup(MMAP(s, size), size) ELSE sys_none(s, size)

\* sysmalloc once the first MORECORE call has run
sys_first(s, nb, size1, size2) ==
  IF s.r # MORECORE_FAILURE
    THEN [st |-> s, brk |-> s.r, snd_brk |-> MORECORE_FAILURE, size |-> size1]
    ELSE sys_fallback(s, nb, size2)

\* the first MORECORE call, and MMAP when that fails: the state, the start of
\* the space obtained, its end when known, and its size
sys_acquire(s, nb, old_size) ==
  LET pagesz == s.av.pagesize
      size0  == U(nb + s.av.top_pad + MINSIZE)
      size1  == AlignUp(IF contiguous(s.av) THEN U(size0 - old_size) ELSE size0,
                        pagesz)
      size2a == IF contiguous(s.av) THEN AlignUp(U(size1 + old_size), pagesz)
                ELSE size1
      size2  == IF size2a < MMAP_AS_MORECORE_SIZE THEN MMAP_AS_MORECORE_SIZE
                ELSE size2a
  IN  IF Signed(size1) > 0 THEN sys_first(MORECORE(s, size1), nb, size1, size2)
      ELSE sys_fallback(s, nb, size2)

\* if (brk != MORECORE_FAILURE) { ... } errno = ENOMEM; return 0
sys_grown(x, nb, old_top, old_size) ==
  IF x.brk = MORECORE_FAILURE THEN Fail(x.st)
  ELSE sys_finish(
         IF x.brk = chunk_at_offset(old_top, old_size)
            /\ x.snd_brk = MORECORE_FAILURE
           THEN set_head([x.st EXCEPT !.av.sbrked_mem = U(@ + x.size)], old_top,
                         OrBit(U(x.size + old_size), PREV_INUSE))
           ELSE sys_adjust([x.st EXCEPT !.av.sbrked_mem = U(@ + x.size)],
                           x.brk, x.snd_brk, x.size, old_top, old_size),
         nb)

\* the assertions sysmalloc makes of the old top
sys_checked(s, nb) ==
  Assert_(Assert_(Assert_(s,
    \/ s.av.top = initial_top /\ chunksize(s, s.av.top) = 0
    \/ chunksize(s, s.av.top) >= MINSIZE /\ prev_inuse(s, s.av.top)),
    chunksize(s, s.av.top) < U(nb + MINSIZE)),
    ~have_fastchunks(s.av))

\* top is extended through MORECORE, or replaced through mmap when that fails
sys_brk(s, nb) ==
  IF Done(s) THEN s
  ELSE sys_grown(sys_acquire(sys_checked(s, nb), nb, chunksize(s, s.av.top)),
                 nb, s.av.top, chunksize(s, s.av.top))

\* a faulty variant of sysmalloc: memory is acquired whether or not fast chunks
\* are pending
sysmalloc_direct(s, nb) ==
  sys_brk(IF nb >= s.av.mmap_threshold /\ s.av.n_mmaps < s.av.n_mmaps_max
            THEN sys_mmap(s, nb) ELSE s,
          nb)

sysmalloc(s, nb) ==
  IF have_fastchunks(s.av)
    THEN malloc(malloc_consolidate(Assert_(s, in_smallbin_range(nb))),
                U(nb - MALLOC_ALIGN_MASK))
    ELSE sys_brk(IF nb >= s.av.mmap_threshold /\ s.av.n_mmaps < s.av.n_mmaps_max
                   THEN sys_mmap(s, nb) ELSE s,
                 nb)

\* use_top: split the request off top, or relay to sysmalloc
use_top(s, nb) ==
  LET victim == s.av.top
      size   == chunksize(s, victim)
      remainder == chunk_at_offset(victim, nb)
  IN  IF Done(s) THEN s
      ELSE IF size >= U(nb + MINSIZE)
        THEN Return(set_head(set_head([s EXCEPT !.av.top = remainder], victim,
                                      OrBit(nb, PREV_INUSE)),
                             remainder, OrBit(U(size - nb), PREV_INUSE)),
                    victim, "top")
      ELSE sysmalloc(s, nb)

\* a faulty variant of malloc: the range check comes after the fast bins
\* have been consolidated
malloc_late_check(s, bytes) ==
  IF REQUEST_OUT_OF_RANGE(bytes)
    THEN Fail(IF have_fastchunks(s.av)
                THEN malloc_consolidate([s EXCEPT !.r = 0, !.path = ""])
                ELSE [s EXCEPT !.r = 0, !.path = ""])
  ELSE use_top(malloc_bins([s EXCEPT !.r = 0, !.path = ""], request2size(bytes)),
               request2size(bytes))

malloc(s, bytes) ==
  IF REQUEST_OUT_OF_RANGE(bytes) THEN Fail([s EXCEPT !.r = 0, !.path = ""])
  ELSE use_top(malloc_bins([s EXCEPT !.r = 0, !.path = ""], request2size(bytes)),
               request2size(bytes))

(* ------------------------- realloc, memalign, calloc ------------------- *)

\* memcpy(d, src, n), n a multiple of the word size
memcpy(s, d, src, n) ==
  LET from == {x \in DOMAIN s.mem : x >= src /\ x < src + n}
      to   == {x \in DOMAIN s.mem : x >= d /\ x < d + n}
      new  == {x - src + d : x \in from}
  IN  IF n = 0 THEN s
      ELSE IF ~Mapped(s, d) \/ ~Mapped(s, d + n - SIZE_SZ)
              \/ ~Mapped(s, src) \/ ~Mapped(s, src + n - SIZE_SZ)
        THEN [s EXCEPT !.fault = TRUE]
      ELSE [s EXCEPT !.mem = [x \in (DOMAIN @ \ to) \cup new |->
                                IF x \in new THEN @[x - d + src] ELSE @[x]]]

\* memset(d, 0, n)
memclear(s, d, n) ==
  IF n = 0 THEN s
  ELSE IF ~Mapped(s, d) \/ ~Mapped(s, d + n - SIZE_SZ) THEN [s EXCEPT !.fault = TRUE]
  ELSE [s EXCEPT !.mem = [x \in {y \in DOMAIN @ : ~(y >= d /\ y < d + n)} |-> @[x]]]

\* a faulty variant of the unrolled copy: the cases above three words are lost
Unrolled_short(n) == {0, 1, 2}

\* the words an unrolled copy or clear of n words touches
Unrolled(n) ==
  {0, 1, 2} \cup (IF n > 4 THEN {3, 4} ELSE {})
            \cup (IF n > 6 THEN {5, 6} ELSE {})
            \cup (IF n > 8 THEN {7, 8} ELSE {})

\* the least word of ws
first_word(ws) == CHOOSE x \in ws : \A y \in ws : x <= y

\* *(d+k) = v[k] for the words k of ws, in order
RECURSIVE store_words(_, _, _, _)
store_words(s, d, ws, v) ==
  IF ws = {} THEN s
  ELSE store_words(Wr(s, U(d + SIZE_SZ * first_word(ws)), v[first_word(ws)]), d,
                   ws \ {first_word(ws)}, v)

\* the copy of realloc from the old payload to the new one
copy_words(s, d, src, copysize) ==
  LET ncopies == (copysize \div SIZE_SZ) % UINT_MOD
  IN  IF ncopies > 9 THEN memcpy(Assert_(s, ncopies >= 3), d, src, copysize)
      ELSE store_words(Assert_(s, ncopies >= 3), d, Unrolled(ncopies),
                       [k \in 0 .. 8 |-> Rd(s.mem, U(src + SIZE_SZ * k))])

\* a faulty variant of the tail of realloc: the extra space is never split off
realloc_split_whole(s, newp, newsize, nb, how) ==
  Return(set_inuse_bit_at_offset(
           set_head_size(Assert_(s, newsize >= nb), newp, newsize), newp, newsize),
         newp, how)

\* the tail of realloc: the extra space of newp, if a chunk, is freed
realloc_split(s, newp, newsize, nb, how) ==
  LET remainder_size == U(newsize - nb)
      remainder == chunk_at_offset(newp, nb)
  IN  Return(IF remainder_size < MINSIZE
               THEN set_inuse_bit_at_offset(
                      set_head_size(Assert_(s, newsize >= nb), newp, newsize),
                      newp, newsize)
               ELSE free(set_inuse_bit_at_offset(
                           set_head(set_head_size(Assert_(s, newsize >= nb), newp, nb),
                                    remainder, OrBit(remainder_size, PREV_INUSE)),
                           remainder, remainder_size),
                         chunk2mem(remainder)),
             newp, how)

\* a faulty variant of the failure path of realloc: the old chunk is released
realloc_failed_frees(s, oldmem) == free(s, oldmem)

\* if (newmem == 0) return 0: the failure of the inner malloc is propagated
realloc_failed(s, oldmem) == s

\* a result of realloc that needs no split
realloc_final(s) == [st |-> s, split |-> FALSE, newsize |-> 0, how |-> ""]

\* realloc once the inner malloc has run
realloc_moved(s, oldmem, oldsize, mapped) ==
  IF oldmem = 0 THEN realloc_final(s)
  ELSE IF s.r = 0 THEN realloc_final(realloc_failed(s, oldmem))
  ELSE IF ~mapped /\ mem2chunk(s.r) = chunk_at_offset(mem2chunk(oldmem), oldsize)
    THEN [st |-> s, split |-> TRUE,
          newsize |-> U(chunksize(s, mem2chunk(s.r)) + oldsize), how |-> "splice"]
  ELSE realloc_final(
         Return(free(IF mapped
                       THEN memcpy(s, s.r, oldmem, U(oldsize - 2 * SIZE_SZ))
                       ELSE copy_words(s, s.r, oldmem, U(oldsize - SIZE_SZ)),
                     oldmem),
                mem2chunk(s.r), IF mapped THEN "mapcopy" ELSE "copy"))

\* realloc up to the split: the state, and the chunk size to split if any
realloc_place(s, oldmem, bytes) ==
  LET nb      == request2size(bytes)
      oldp    == mem2chunk(oldmem)
      oldsize == chunksize(s, oldp)
      next    == chunk_at_offset(oldp, oldsize)
      mapped  == chunk_is_mmapped(s, oldp)
      newsize == U(oldsize + chunksize(s, next))
  IN  IF oldmem # 0 /\ REQUEST_OUT_OF_RANGE(bytes) THEN realloc_final(Fail(s))
      ELSE IF oldmem # 0 /\ mapped /\ oldsize >= U(nb + SIZE_SZ)
        THEN realloc_final([s EXCEPT !.r = oldmem, !.path = "inplace"])
      ELSE IF oldmem # 0 /\ ~mapped /\ oldsize >= nb
        THEN [st |-> s, split |-> TRUE, newsize |-> oldsize, how |-> "inplace"]
      ELSE IF oldmem # 0 /\ ~mapped /\ next = s.av.top
              /\ newsize >= U(nb + MINSIZE)
        THEN realloc_final(
               Return(set_head([set_head_size(s, oldp, nb)
                                  EXCEPT !.av.top = chunk_at_offset(oldp, nb)],
                               chunk_at_offset(oldp, nb),
                               OrBit(U(newsize - nb), PREV_INUSE)),
                      oldp, "intotop"))
      ELSE IF oldmem # 0 /\ ~mapped /\ next # s.av.top /\ ~inuse(s, next)
              /\ newsize >= nb
        THEN [st |-> unlink(s, next), split |-> TRUE, newsize |-> newsize,
              how |-> "intonext"]
      ELSE realloc_moved(malloc(s, IF oldmem = 0 THEN bytes
                                   ELSE U(nb - MALLOC_ALIGN_MASK)),
                         oldmem, oldsize, mapped)

\* If possible, free extra space in old or extended chunk
realloc_finish(x, oldp, nb) ==
  IF x.split THEN realloc_split(x.st, oldp, x.newsize, nb, x.how) ELSE x.st

realloc(s, oldmem, bytes) ==
  realloc_finish(realloc_place([s EXCEPT !.r = 0, !.path = ""], oldmem, bytes),
                 mem2chunk(oldmem), request2size(bytes))

\* while (a < alignment) a <<= 1; 0 when the loop never ends
RECURSIVE pow2_at_least(_, _)
pow2_at_least(a, alignment) ==
  IF a = 0 THEN 0
  ELSE IF a < alignment THEN pow2_at_least(U(2 * a), alignment)
  ELSE a

\* (alignment & (alignment - 1)) == 0
is_pow2(a) == a = 0 \/ pow2_at_least(1, a) = a

\* the alignment memalign works with
effective_alignment(alignment0) ==
  IF is_pow2(IF alignment0 < MINSIZE THEN MINSIZE ELSE alignment0)
    THEN IF alignment0 < MINSIZE THEN MINSIZE ELSE alignment0
    ELSE pow2_at_least(2 * MALLOC_ALIGNMENT, alignment0)

\* memalign: give back the spare room at the end of p
memalign_tail(s, p, nb) ==
  LET size == chunksize(s, p)
      remainder == chunk_at_offset(p, nb)
  IN  Return(IF ~chunk_is_mmapped(s, p) /\ size > U(nb + MINSIZE)
               THEN free(set_head_size(set_head(s, remainder,
                                                OrBit(U(size - nb), PREV_INUSE)),
                                       p, nb),
                         chunk2mem(remainder))
               ELSE s,
             p, s.path)

\* a faulty variant of the cut of memalign: the lead of a mapped chunk is not
\* added to its prev_size
memalign_lead_nopad(s, alignment, nb) ==
  LET m    == s.r
      p    == mem2chunk(m)
      brk0 == mem2chunk(AlignDown(U(m + alignment - 1), alignment))
      brk  == IF U(brk0 - p) < MINSIZE THEN U(brk0 + alignment) ELSE brk0
      leadsize == U(brk - p)
      newsize  == U(chunksize(s, p) - leadsize)
  IN  IF chunk_is_mmapped(s, p)
        THEN [st |-> Return(set_head(set_prev_size(s, brk, prev_size(s, p)),
                                     brk, OrBit(newsize, IS_MMAPPED)),
                            brk, s.path),
              p |-> brk, final |-> TRUE]
        ELSE [st |-> Assert_(
                       free(set_head_size(
                              set_inuse_bit_at_offset(
                                set_head(s, brk, OrBit(newsize, PREV_INUSE)),
                                brk, newsize),
                              p, leadsize),
                            chunk2mem(p)),
                       newsize >= nb /\ chunk2mem(brk) % alignment = 0),
              p |-> brk, final |-> FALSE]

\* memalign: the chunk malloc gave is cut at the aligned spot brk inside it
memalign_lead(s, alignment, nb) ==
  LET m    == s.r
      p    == mem2chunk(m)
      brk0 == mem2chunk(AlignDown(U(m + alignment - 1), alignment))
      brk  == IF U(brk0 - p) < MINSIZE THEN U(brk0 + alignment) ELSE brk0
      leadsize == U(brk - p)
      newsize  == U(chunksize(s, p) - leadsize)
  IN  IF chunk_is_mmapped(s, p)
        THEN [st |-> Return(set_head(set_prev_size(s, brk,
                                                   U(prev_size(s, p) + leadsize)),
                                     brk, OrBit(newsize, IS_MMAPPED)),
                            brk, s.path),
              p |-> brk, final |-> TRUE]
        ELSE [st |-> Assert_(
                       free(set_head_size(
                              set_inuse_bit_at_offset(
                                set_head(s, brk, OrBit(newsize, PREV_INUSE)),
                                brk, newsize),
                              p, leadsize),
                            chunk2mem(p)),
                       newsize >= nb /\ chunk2mem(brk) % alignment = 0),
              p |-> brk, final |-> FALSE]

\* Also give back spare room at the end
memalign_finish(x, nb) ==
  IF x.final THEN x.st ELSE memalign_tail(x.st, x.p, nb)

\* memalign once malloc has run
memalign_cut(s, alignment0, alignment, nb) ==
  IF alignment0 <= MALLOC_ALIGNMENT \/ s.r = 0 THEN s
  ELSE memalign_finish(IF s.r % alignment # 0 THEN memalign_lead(s, alignment, nb)
                       ELSE [st |-> s, p |-> mem2chunk(s.r), final |-> FALSE],
                       nb)

memalign(s, alignment0, bytes) ==
  IF alignment0 > MALLOC_ALIGNMENT /\ effective_alignment(alignment0) = 0
    THEN [s EXCEPT !.hung = TRUE]
  ELSE IF alignment0 > MALLOC_ALIGNMENT /\ REQUEST_OUT_OF_RANGE(bytes)
    THEN Fail([s EXCEPT !.r = 0, !.path = ""])
  ELSE memalign_cut(malloc(s, IF alignment0 <= MALLOC_ALIGNMENT THEN bytes
                              ELSE U(request2size(bytes)
                                     + effective_alignment(alignment0) + MINSIZE)),
                    alignment0, effective_alignment(alignment0), request2size(bytes))

\* the payload of the chunk malloc gave is cleared
calloc_clear(s, clearsize) ==
  IF clearsize \div SIZE_SZ > 9
    THEN memclear(Assert_(s, clearsize \div SIZE_SZ >= 3), s.r, clearsize)
    ELSE store_words(Assert_(s, clearsize \div SIZE_SZ >= 3), s.r,
                     Unrolled(clearsize \div SIZE_SZ), [k \in 0 .. 8 |-> 0])

\* calloc once malloc has run
calloc_zero(s) ==
  IF s.r = 0 \/ chunk_is_mmapped(s, mem2chunk(s.r)) THEN s
  ELSE [calloc_clear(s, U(chunksize(s, mem2chunk(s.r)) - SIZE_SZ)) EXCEPT !.r = s.r]

calloc(s, n_elements, elem_size) ==
  calloc_zero(malloc(s, MulMod(n_elements, elem_size)))

malloc_usable_size(s, m) ==
  LET p == mem2chunk(m)
  IN  IF m = 0 THEN 0
      ELSE IF chunk_is_mmapped(s, p) THEN U(chunksize(s, p) - 2 * SIZE_SZ)
      ELSE IF inuse(s, p) THEN U(chunksize(s, p) - SIZE_SZ)
      ELSE 0

(* ------------------------- malloc_trim, mallopt ------------------------ *)

malloc_trim(s, pad) == systrim(malloc_consolidate([s EXCEPT !.r = 0, !.path = ""]), pad)

\* the switch of mallopt, the state consolidated; value is an int, and is
\* converted to the type of the field it is stored in
mallopt_switch(s, param_number, value) ==
  IF param_number = "M_MXFAST"
    THEN IF value >= 0 /\ value <= MAX_FAST_SIZE
           THEN [set_max_fast(s, value) EXCEPT !.r = 1]
           ELSE [s EXCEPT !.r = 0]
  ELSE IF param_number = "M_TRIM_THRESHOLD"
    THEN [s EXCEPT !.av.trim_threshold = U(value), !.r = 1]
  ELSE IF param_number = "M_TOP_PAD"
    THEN [s EXCEPT !.av.top_pad = U(value), !.r = 1]
  ELSE IF param_number = "M_MMAP_THRESHOLD"
    THEN [s EXCEPT !.av.mmap_threshold = U(value), !.r = 1]
  ELSE IF param_number = "M_MMAP_MAX"
    THEN [s EXCEPT !.av.n_mmaps_max = value, !.r = 1]
  ELSE [s EXCEPT !.r = 0]

\* a faulty variant of mallopt: the value of M_MXFAST is not checked
mallopt_unchecked(s, param_number, value) ==
  IF param_number = "M_MXFAST"
    THEN [set_max_fast(malloc_consolidate([s EXCEPT !.r = 0, !.path = ""]), U(value))
            EXCEPT !.r = 1]
    ELSE mallopt_switch(malloc_consolidate([s EXCEPT !.r = 0, !.path = ""]),
                        param_number, value)

\* a faulty variant of mallopt: the fast bins are not consolidated first
mallopt_unconsolidated(s, param_number, value) ==
  mallopt_switch([s EXCEPT !.r = 0, !.path = ""], param_number, value)

mallopt(s, param_number, value) ==
  mallopt_switch(malloc_consolidate([s EXCEPT !.r = 0, !.path = ""]),
                 param_number, value)

(* ------------------------- ialloc -------------------------------------- *)

\* for (i = 0; i != n_elements; ++i) contents_size += request2size(sizes[i])
RECURSIVE ialloc_sum(_, _)
ialloc_sum(sizes, n) ==
  IF n = 0 THEN 0 ELSE U(ialloc_sum(sizes, n - 1) + request2size(sizes[n]))

\* the chunk size of each element when all are the same, else 0
ialloc_element_size(sizes, opts) ==
  IF opts % 2 = 1 THEN request2size(sizes[1]) ELSE 0

\* the total size of the elements
ialloc_contents_size(n_elements, sizes, opts) ==
  IF opts % 2 = 1 THEN MulMod(n_elements, request2size(sizes[1]))
  ELSE ialloc_sum(sizes, n_elements)

\* the request size of the pointer array
ialloc_array_size(n_elements, chunks) ==
  IF chunks # 0 THEN 0 ELSE request2size(MulMod(n_elements, SIZE_SZ))

\* the aggregate chunk is allocated with mmap disabled
ialloc_host(s, size) ==
  [malloc([s EXCEPT !.av.n_mmaps_max = 0], size)
     EXCEPT !.av.n_mmaps_max = s.av.n_mmaps_max]

\* optionally clear the elements
ialloc_clear(s, opts, array_size) ==
  IF (opts \div 2) % 2 = 1
    THEN [memclear(s, s.r, U(chunksize(s, mem2chunk(s.r)) - SIZE_SZ - array_size))
            EXCEPT !.r = s.r]
    ELSE s

\* If not provided, allocate the pointer array as final part of chunk
ialloc_array(s, chunks, contents_size) ==
  IF chunks = 0
    THEN set_head(s, chunk_at_offset(mem2chunk(s.r), contents_size),
                  OrBit(U(chunksize(s, mem2chunk(s.r)) - contents_size), PREV_INUSE))
    ELSE s

\* split out elements: element i starts at p, remainder_size bytes are left
RECURSIVE ialloc_carve(_, _, _, _, _, _, _, _)
ialloc_carve(s, p, marray, i, n_elements, element_size, sizes, remainder_size) ==
  LET size == IF element_size # 0 THEN element_size ELSE request2size(sizes[i + 1])
  IN  IF s.fault THEN s
      ELSE IF i # U(n_elements - 1)
        THEN ialloc_carve(set_head(Wr(s, U(marray + SIZE_SZ * i), chunk2mem(p)), p,
                                   OrBit(size, PREV_INUSE)),
                          chunk_at_offset(p, size), marray, i + 1, n_elements,
                          element_size, sizes, U(remainder_size - size))
      ELSE set_head(Wr(s, U(marray + SIZE_SZ * i), chunk2mem(p)), p,
                    OrBit(remainder_size, PREV_INUSE))

\* ialloc once the aggregate chunk has been asked for
ialloc_split(s, n_elements, sizes, opts, chunks, array_size, contents_size) ==
  IF s.r = 0 THEN s
  ELSE [ialloc_carve(
          ialloc_array(
            ialloc_clear(Assert_(s, ~chunk_is_mmapped(s, mem2chunk(s.r))), opts,
                         array_size),
            chunks, contents_size),
          mem2chunk(s.r),
          IF chunks = 0
            THEN chunk2mem(chunk_at_offset(mem2chunk(s.r), contents_size))
            ELSE chunks,
          0, n_elements, ialloc_element_size(sizes, opts), sizes,
          IF chunks = 0 THEN contents_size ELSE chunksize(s, mem2chunk(s.r)))
        EXCEPT !.r = IF chunks = 0
                       THEN chunk2mem(chunk_at_offset(mem2chunk(s.r), contents_size))
                       ELSE chunks,
               !.path = "bulk"]

\* ialloc on an initialised state
ialloc_sized(s, n_elements, sizes, opts, chunks) ==
  IF n_elements = 0
    THEN IF chunks # 0 THEN [s EXCEPT !.r = chunks] ELSE malloc(s, 0)
    ELSE ialloc_split(
           ialloc_host(s, U(ialloc_contents_size(n_elements, sizes, opts)
                            + ialloc_array_size(n_elements, chunks)
                            - MALLOC_ALIGN_MASK)),
           n_elements, sizes, opts, chunks, ialloc_array_size(n_elements, chunks),
           ialloc_contents_size(n_elements, sizes, opts))

ialloc(s, n_elements, sizes, opts, chunks) ==
  ialloc_sized(IF s.av.max_fast = 0
                 THEN malloc_consolidate([s EXCEPT !.r = 0, !.path = ""])
                 ELSE [s EXCEPT !.r = 0, !.path = ""],
               n_elements, sizes, opts, chunks)

independent_calloc(s, n_elements, elem_size, chunks) ==
  ialloc(s, n_elements, <<elem_size>>, 3, chunks)

independent_comalloc(s, n_elements, sizes, chunks) ==
  ialloc(s, n_elements, sizes, 0, chunks)

(* ------------------------- the stores that put a chunk on a list -------- *)

\* one store of a routine: field f of the chunk at p, or of the state, gets v
write(s, w) ==
  IF w.f = "fd" THEN set_fd(s, w.p, w.v)
  ELSE IF w.f = "bk" THEN set_bk(s, w.p, w.v)
  ELSE IF w.f = "head" THEN set_head(s, w.p, w.v)
  ELSE IF w.f = "foot" THEN set_foot(s, w.p, w.v)
  ELSE [s EXCEPT !.av.last_remainder = w.v]

\* the first n stores of ws, in order
RECURSIVE apply_writes(_, _, _)
apply_writes(s, ws, n) ==
  IF n = 0 THEN s ELSE write(apply_writes(s, ws, n - 1), ws[n])

\* a faulty order for free(): head and foot first, then the links
free_link_writes_tagged_first(s, p, size) ==
  <<[f |-> "head", p |-> p, v |-> OrBit(size, PREV_INUSE)],
    [f |-> "foot", p |-> p, v |-> size],
    [f |-> "bk", p |-> p, v |-> unsorted_chunks],
    [f |-> "fd", p |-> p, v |-> fd(s, unsorted_chunks)],
    [f |-> "fd", p |-> unsorted_chunks, v |-> p],
    [f |-> "bk", p |-> fd(s, unsorted_chunks), v |-> p]>>

\* free(): p->bk = bck; p->fd = fwd; bck->fd = p; fwd->bk = p; set_head; set_foot
free_link_writes(s, p, size) ==
  <<[f |-> "bk", p |-> p, v |-> unsorted_chunks],
    [f |-> "fd", p |-> p, v |-> fd(s, unsorted_chunks)],
    [f |-> "fd", p |-> unsorted_chunks, v |-> p],
    [f |-> "bk", p |-> fd(s, unsorted_chunks), v |-> p],
    [f |-> "head", p |-> p, v |-> OrBit(size, PREV_INUSE)],
    [f |-> "foot", p |-> p, v |-> size]>>

\* malloc_consolidate(): unsorted_bin->fd = p; first_unsorted->bk = p;
\* set_head; p->bk = unsorted_bin; p->fd = first_unsorted; set_foot
consolidate_link_writes(s, p, size) ==
  <<[f |-> "fd", p |-> unsorted_chunks, v |-> p],
    [f |-> "bk", p |-> fd(s, unsorted_chunks), v |-> p],
    [f |-> "head", p |-> p, v |-> OrBit(size, PREV_INUSE)],
    [f |-> "bk", p |-> p, v |-> unsorted_chunks],
    [f |-> "fd", p |-> p, v |-> fd(s, unsorted_chunks)],
    [f |-> "foot", p |-> p, v |-> size]>>

\* malloc(), split: unsorted_chunks->bk = unsorted_chunks->fd = remainder;
\* remainder->bk = remainder->fd = unsorted_chunks; set_head(victim);
\* set_head(remainder); set_foot(remainder)
split_writes(victim, size, nb) ==
  <<[f |-> "bk", p |-> unsorted_chunks, v |-> chunk_at_offset(victim, nb)],
    [f |-> "fd", p |-> unsorted_chunks, v |-> chunk_at_offset(victim, nb)],
    [f |-> "bk", p |-> chunk_at_offset(victim, nb), v |-> unsorted_chunks],
    [f |-> "fd", p |-> chunk_at_offset(victim, nb), v |-> unsorted_chunks],
    [f |-> "head", p |-> victim, v |-> OrBit(nb, PREV_INUSE)],
    [f |-> "head", p |-> chunk_at_offset(victim, nb), v |-> OrBit(U(size - nb), PREV_INUSE)],
    [f |-> "foot", p |-> chunk_at_offset(victim, nb), v |-> U(size - nb)]>>

\* free() up to the point where the chunk is to be placed: the state, the
\* chunk and its size after coalescing, and whether it borders top
free_merged(s, p0, size0) ==
  LET nextchunk == chunk_at_offset(p0, size0)
      nextsize  == chunksize(s, nextchunk)
      back      == ~prev_inuse(s, p0)
      prevsize  == prev_size(s, p0)
      size1     == IF back THEN U(size0 + prevsize) ELSE size0
      p         == IF back THEN U(p0 - prevsize) ELSE p0
      s1        == IF back THEN unlink(set_anychunks(s), p) ELSE set_anychunks(s)
      nextinuse == inuse_bit_at_offset(s1, nextchunk, nextsize)
  IN  IF nextchunk = s1.av.top
        THEN [st |-> s1, p |-> p, size |-> size1, top |-> TRUE]
      ELSE IF nextinuse
        THEN [st |-> set_head(s1, nextchunk, nextsize), p |-> p, size |-> size1,
              top |-> FALSE]
      ELSE [st |-> unlink(set_head(s1, nextchunk, nextsize), nextchunk), p |-> p,
            size |-> U(size1 + nextsize), top |-> FALSE]

\* malloc_consolidate() of the fast-bin chunk p up to the point where the
\* merged chunk is to be placed
consolidate_merged(s, p) ==
  LET size0     == ClearBit(head(s, p), PREV_INUSE)
      nextchunk == chunk_at_offset(p, size0)
      nextsize  == chunksize(s, nextchunk)
      back      == ~prev_inuse(s, p)
      prevsize  == prev_size(s, p)
      size1     == IF back THEN U(size0 + prevsize) ELSE size0
      p1        == IF back THEN U(p - prevsize) ELSE p
      s1        == IF back THEN unlink(s, p1) ELSE s
      nextinuse == inuse_bit_at_offset(s1, nextchunk, nextsize)
  IN  IF nextchunk = s1.av.top
        THEN [st |-> s1, p |-> p1, size |-> size1, top |-> TRUE]
      ELSE IF nextinuse
        THEN [st |-> set_head(s1, nextchunk, nextsize), p |-> p1, size |-> size1,
              top |-> FALSE]
      ELSE [st |-> unlink(set_head(s1, nextchunk, nextsize), nextchunk), p |-> p1,
            size |-> U(size1 + nextsize), top |-> FALSE]

\* the lowest fast bin from i on that holds a chunk, or NFASTBINS
RECURSIVE first_fastbin(_, _)
first_fastbin(s, i) ==
  IF i >= NFASTBINS THEN NFASTBINS
  ELSE IF s.av.fastbins[i] # 0 THEN i
  ELSE first_fastbin(s, i + 1)

\* malloc_consolidate() as it takes the first chunk off the fast bins
consolidate_first(s) ==
  [clear_fastchunks(s) EXCEPT !.av.fastbins[first_fastbin(s, 0)] = 0]

\* the chunk the scan of a large bin takes for nb: the first from the tail
\* that is large enough, or the bin itself
RECURSIVE large_fit(_, _, _, _, _)
large_fit(s, bin, victim, nb, fuel) ==
  IF victim = bin \/ fuel = 0 THEN bin
  ELSE IF chunksize(s, victim) >= nb THEN victim
  ELSE large_fit(s, bin, bk(s, victim), nb, fuel - 1)

\* malloc() of a large nb up to the scan of its own bin
malloc_drained(s, nb) ==
  drain_unsorted(malloc_exact([s EXCEPT !.r = 0, !.path = ""], nb), nb, LoopFuel)

(* ------------------------- the program and its client ------------------ *)

\* the static malloc_state before its first use: all zero
AV0 ==
  [max_fast |-> 0, fastbins |-> [i \in 0 .. (NFASTBINS - 1) |-> 0], top |-> 0,
   last_remainder |-> 0, binmap |-> [b \in 0 .. BINMAPSIZE |-> {}],
   trim_threshold |-> 0, top_pad |-> 0, mmap_threshold |-> 0, n_mmaps |-> 0,
   n_mmaps_max |-> 0, max_n_mmaps |-> 0, pagesize |-> 0,
   morecore_properties |-> 0, mmapped_mem |-> 0, sbrked_mem |-> 0,
   max_sbrked_mem |-> 0, max_mmapped_mem |-> 0, max_total_mem |-> 0]

\* the machine a call starts on
Machine ==
  [av |-> av, mem |-> mem, os |-> os, r |-> 0, path |-> "", nsys |-> 0,
   ncons |-> 0, fault |-> FALSE, hung |-> FALSE, afail |-> FALSE,
   fsys |-> FALSE, ntrim |-> 0]

\* the word the client stores at word k of a payload
Pattern(k) == 900000001 + 2 * k

\* the words of a payload of n bytes the client stores and compares: the first
\* twelve and the last two
SampleWords(n) ==
  LET w == n \div SIZE_SZ
  IN  (0 .. ((IF w < 12 THEN w ELSE 12) - 1)) \cup ((IF w < 2 THEN 0 ELSE w - 2) .. (w - 1))

\* the client stores Pattern(k) at the words k of ws of the payload m
store_sampled(s, m, ws) ==
  LET at == {U(m + SIZE_SZ * k) : k \in ws}
  IN  IF \E a \in at : ~Mapped(s, a) THEN [s EXCEPT !.fault = TRUE]
      ELSE [s EXCEPT !.mem = [x \in DOMAIN @ \cup at |->
                                IF x \in at THEN Pattern((x - m) \div SIZE_SZ)
                                ELSE @[x]]]

NoCall ==
  [op |-> "none", a1 |-> 0, a2 |-> 0, ret |-> 0, path |-> "", nsys |-> 0,
   ncons |-> 0, afail |-> FALSE, fsys |-> FALSE,
   ntrim |-> 0, hung |-> FALSE, expect |-> 0, dup |-> FALSE,
   av0 |-> AV0, mem0 |-> <<>>, os0 |-> <<>>, live0 |-> <<>>]

\* the process starts: break at b, l bytes of room above it
InitWith(B, L, K, N) ==
  /\ av = AV0
  /\ mem = <<>>
  /\ os \in {[brk |-> b, brk0 |-> b, lim |-> b + l, maps |-> {}, mok |-> k,
              ndebug |-> n, errno |-> 0, foreign |-> {},
              plan |-> [at |-> 0, inc |-> 0]] : b \in B, l \in L, k \in K, n \in N}
  /\ live = <<>>
  /\ lifo = <<>>
  /\ last = NoCall
  /\ dead = FALSE
  /\ nops = 0

\* the fast-bin residents the client knows of, without those of payload m
Without(q, m) == SelectSeq(q, LAMBDA e : e.ptr # m)

\* the payload the client freed last among those of chunk size nb, or 0
Expected(nb) ==
  LET same == SelectSeq(lifo, LAMBDA e : e.size = nb)
  IN  IF same = <<>> THEN 0 ELSE same[Len(same)].ptr

\* the client's record of a payload of n bytes whose first d bytes it has
\* stored and still knows (none once the payload was cut shorter)
Held(m, n, d) == m :> [req |-> n, data |-> d, born |-> nops]

\* the bytes the caller asked for
Requested(op, a1, a2) ==
  IF op = "malloc" THEN a1
  ELSE IF op = "calloc" THEN MulMod(a1, a2)
  ELSE a2

\* what the client holds after op(a1, a2) gave ret
LiveAfter(op, a1, a2, ret) ==
  IF op = "free" THEN [x \in DOMAIN live \ {a1} |-> live[x]]
  ELSE IF ret = 0 \/ op \in {"malloc_trim", "mallopt"} THEN live
  ELSE IF op = "realloc"
    THEN Held(ret, a2, IF live[a1].data > a2 THEN 0 ELSE live[a1].data)
           @@ [x \in DOMAIN live \ {a1} |-> live[x]]
  ELSE Held(ret, Requested(op, a1, a2), 0) @@ live

\* the fast-bin residents the client knows of after op(a1, a2) gave ret
LifoAfter(op, a1, ret, ncons) ==
  IF ncons > 0 THEN <<>>
  ELSE IF op = "malloc" THEN Without(lifo, ret)
  ELSE IF op = "free"
    THEN IF chunksize(Machine, mem2chunk(a1)) <= av.max_fast
           THEN Append(lifo, [ptr |-> a1, size |-> chunksize(Machine, mem2chunk(a1))])
           ELSE lifo
  ELSE <<>>

\* a call of op(a1, a2) ran the machine to r
Call(op, a1, a2, r) ==
  /\ av' = r.av
  /\ mem' = r.mem
  /\ os' = r.os
  /\ live' = LiveAfter(op, a1, a2, r.r)
  /\ lifo' = LifoAfter(op, a1, r.r, r.ncons)
  /\ last' = [op |-> op, a1 |-> a1, a2 |-> a2,
              ret |-> IF op = "free" THEN 0 ELSE r.r, path |-> r.path,
              nsys |-> r.nsys, ncons |-> r.ncons, afail |-> r.afail,
              fsys |-> r.fsys, ntrim |-> r.ntrim, hung |-> r.hung,
              expect |-> IF op = "malloc" THEN Expected(request2size(a1)) ELSE 0,
              dup |-> op # "free" /\ r.r # 0 /\ r.r \in DOMAIN live
                      /\ ~(op = "realloc" /\ r.r = a1),
              av0 |-> av, mem0 |-> mem, os0 |-> os, live0 |-> live]
  /\ dead' = (r.fault \/ r.hung \/ (r.afail /\ ~os.ndebug))
  /\ nops' = nops + 1

Malloc(n) ==
  /\ ~dead
  /\ Call("malloc", n, 0, malloc(Machine, n))

Free(m) ==
  /\ ~dead
  /\ m \in DOMAIN live
  /\ Call("free", m, 0, free(Machine, m))

Realloc(m, n) ==
  /\ ~dead
  /\ m \in DOMAIN live
  /\ Call("realloc", m, n, realloc(Machine, m, n))

Memalign(a, n) ==
  /\ ~dead
  /\ Call("memalign", a, n, memalign(Machine, a, n))

Calloc(k, n) ==
  /\ ~dead
  /\ Call("calloc", k, n, calloc(Machine, k, n))

\* the client fills the payload m it holds
Store(m) ==
  /\ ~dead
  /\ m \in DOMAIN live
  /\ live[m].data < live[m].req
  /\ live[m].req < SIZE_T_MOD \div 2
  /\ mem' = store_sampled(Machine, m, SampleWords(live[m].req)).mem
  /\ live' = [live EXCEPT ![m].data = live[m].req]
  /\ dead' = store_sampled(Machine, m, SampleWords(live[m].req)).fault
  /\ last' = [NoCall EXCEPT !.op = "store", !.a1 = m]
  /\ UNCHANGED <<av, os, lifo, nops>>

(* ------------------------- specifications ------------------------------ *)

MaxOps == 3

HUGE == SIZE_T_MOD - 65

Init == InitWith({65536}, {8192, 2097152}, {TRUE}, {TRUE, FALSE})

Next ==
  \/ \E n \in {24, 40, 300, 5000, HUGE} : nops < MaxOps /\ Malloc(n)
  \/ \E m \in DOMAIN live : nops < MaxOps /\ Free(m)
  \/ \E m \in DOMAIN live : \E n \in {40, 600} : nops < MaxOps /\ Realloc(m, n)
  \/ \E a \in {32, 4096} : \E n \in {24, HUGE} : nops < MaxOps /\ Memalign(a, n)
  \/ \E k \in {3, 32769} : nops < MaxOps /\ Calloc(k, 32768)
  \/ \E m \in DOMAIN live : Store(m)

Spec == Init /\ [][Next]_vars

(* ------------------------- more calls of the client -------------------- *)

Trim(pad) ==
  /\ ~dead
  /\ Call("malloc_trim", pad, 0, malloc_trim(Machine, pad))

Mallopt(param_number, value) ==
  /\ ~dead
  /\ Call("mallopt", param_number, value, mallopt(Machine, param_number, value))

BulkOps == {"independent_calloc", "independent_comalloc"}

\* the bytes asked for element i (from 1) of a bulk call with arguments a
ElementRequest(a, i) == IF a.opts % 2 = 1 THEN a.sizes[1] ELSE a.sizes[i]

\* entry i (from 0) of the pointer array a bulk call returned in r
Slot(r, i) == Rd(r.mem, U(r.r + SIZE_SZ * i))

\* the payloads a bulk call of n elements returned in r
Slots(r, n) == {Slot(r, i) : i \in 0 .. (n - 1)}

\* what the client holds after a bulk call of n elements with arguments a
\* gave r: the elements, and the pointer array when the allocator made it
BulkLive(n, a, r) ==
  IF r.r = 0 THEN live
  ELSE IF n = 0 THEN IF a.chunks = 0 THEN Held(r.r, 0, 0) @@ live ELSE live
  ELSE [m \in Slots(r, n) |->
          [req |-> ElementRequest(a, 1 + CHOOSE i \in 0 .. (n - 1) : Slot(r, i) = m),
           data |-> 0, born |-> nops]]
       @@ (IF a.chunks = 0 THEN Held(r.r, n * SIZE_SZ, 0) ELSE <<>>)
       @@ live

\* a bulk call of n elements with arguments a ran the machine to r
Bulk(op, n, a, r) ==
  /\ av' = r.av
  /\ mem' = r.mem
  /\ os' = r.os
  /\ live' = BulkLive(n, a, r)
  /\ lifo' = <<>>
  /\ last' = [op |-> op, a1 |-> n, a2 |-> a, ret |-> r.r, path |-> r.path,
              nsys |-> r.nsys, ncons |-> r.ncons, afail |-> r.afail,
              fsys |-> r.fsys, ntrim |-> r.ntrim, hung |-> r.hung,
              expect |-> 0,
              dup |-> r.r # 0 /\ n > 0
                      /\ (\/ Slots(r, n) \cap DOMAIN live # {}
                          \/ Cardinality(Slots(r, n)) # n
                          \/ a.chunks = 0 /\ r.r \in DOMAIN live \cup Slots(r, n)),
              av0 |-> av, mem0 |-> mem, os0 |-> os, live0 |-> live]
  /\ dead' = (r.fault \/ r.hung \/ (r.afail /\ ~os.ndebug))
  /\ nops' = nops + 1

\* independent_comalloc(n, sizes, chunks), chunks null or an array the client holds
Comalloc(n, sizes, chunks) ==
  /\ ~dead
  /\ chunks = 0 \/ (chunks \in DOMAIN live /\ live[chunks].req >= n * SIZE_SZ)
  /\ Bulk("independent_comalloc", n, [sizes |-> sizes, opts |-> 0, chunks |-> chunks],
          independent_comalloc(Machine, n, sizes, chunks))

\* independent_calloc(n, elem_size, chunks)
IndependentCalloc(n, elem_size, chunks) ==
  /\ ~dead
  /\ chunks = 0 \/ (chunks \in DOMAIN live /\ live[chunks].req >= n * SIZE_SZ)
  /\ Bulk("independent_calloc", n, [sizes |-> <<elem_size>>, opts |-> 3, chunks |-> chunks],
          independent_calloc(Machine, n, elem_size, chunks))

\* another user of the break will call sbrk(inc) just before the call of the
\* system numbered at that a routine of the allocator makes
ForeignSbrk(at, inc) ==
  /\ ~dead
  /\ os.plan.inc = 0
  /\ os' = [os EXCEPT !.plan = [at |-> at, inc |-> inc]]
  /\ last' = [NoCall EXCEPT !.op = "sbrk", !.a1 = at, !.a2 = inc]
  /\ UNCHANGED <<av, mem, live, lifo, dead, nops>>

(* ------------------------- a call followed store by store -------------- *)

\* the state the call under way started from
Machine0 == [Machine EXCEPT !.av = last.av0, !.mem = last.mem0]

\* a routine has reached, in state pre, the stores ws that put the chunk p of
\* the given size on a list
BeginWrites(site, arg, pre, p, size, ws) ==
  /\ ~pre.fault
  /\ av' = pre.av
  /\ mem' = pre.mem
  /\ last' = [NoCall EXCEPT !.op = "writes", !.a1 = 0,
                            !.a2 = [site |-> site, arg |-> arg, p |-> p,
                                    size |-> size, ws |-> ws],
                            !.av0 = av, !.mem0 = mem, !.os0 = os, !.live0 = live]
  /\ UNCHANGED <<os, live, lifo, dead, nops>>

FreeWritesOf(m, fm) ==
  /\ ~fm.top
  /\ BeginWrites("free", m, fm.st, fm.p, fm.size,
                 free_link_writes(fm.st, fm.p, fm.size))

\* free(m) of a chunk that goes to the unsorted list, up to its first store there
FreeWrites(m) ==
  /\ ~dead /\ last.op # "writes"
  /\ m \in DOMAIN live
  /\ chunksize(Machine, mem2chunk(m)) > av.max_fast
  /\ ~chunk_is_mmapped(Machine, mem2chunk(m))
  /\ FreeWritesOf(m, free_merged(Machine, mem2chunk(m),
                                 chunksize(Machine, mem2chunk(m))))

ConsolidateWritesOf(p, cm) ==
  /\ ~cm.top
  /\ BeginWrites("consolidate", p, cm.st, cm.p, cm.size,
                 consolidate_link_writes(cm.st, cm.p, cm.size))

\* malloc_consolidate() up to the first store that places the first chunk it
\* takes off the fast bins
ConsolidateWrites ==
  /\ ~dead /\ last.op # "writes"
  /\ av.max_fast # 0
  /\ first_fastbin(Machine, 0) < NFASTBINS
  /\ ConsolidateWritesOf(av.fastbins[first_fastbin(Machine, 0)],
                         consolidate_merged(consolidate_first(Machine),
                                            av.fastbins[first_fastbin(Machine, 0)]))

SplitWritesOf(nb, d, victim) ==
  /\ ~Done(d)
  /\ victim # bin_at(largebin_index(nb))
  /\ U(chunksize(d, victim) - nb) >= MINSIZE
  /\ BeginWrites("split", nb, unlink(d, victim), chunk_at_offset(victim, nb),
                 U(chunksize(d, victim) - nb),
                 split_writes(victim, chunksize(d, victim), nb))

SplitWritesIn(nb, d) ==
  SplitWritesOf(nb, d, large_fit(d, bin_at(largebin_index(nb)),
                                 bk(d, bin_at(largebin_index(nb))), nb, LoopFuel))

\* malloc(bytes) of a large request that splits a chunk of its own bin, up to
\* the first store that places the remainder
SplitWrites(bytes) ==
  /\ ~dead /\ last.op # "writes"
  /\ ~REQUEST_OUT_OF_RANGE(bytes)
  /\ ~in_smallbin_range(request2size(bytes))
  /\ have_anychunks(av)
  /\ SplitWritesIn(request2size(bytes), malloc_drained(Machine, request2size(bytes)))

\* the next store of the call under way
WriteStep ==
  /\ ~dead /\ last.op = "writes"
  /\ last.a1 < Len(last.a2.ws)
  /\ av' = write(Machine, last.a2.ws[last.a1 + 1]).av
  /\ mem' = write(Machine, last.a2.ws[last.a1 + 1]).mem
  /\ dead' = write(Machine, last.a2.ws[last.a1 + 1]).fault
  /\ last' = [last EXCEPT !.a1 = @ + 1]
  /\ UNCHANGED <<os, live, lifo, nops>>

\* bin_index applied to two sizes
BinIndex(a, b) ==
  /\ last' = [NoCall EXCEPT !.op = "bin_index", !.a1 = a, !.a2 = b,
                            !.ret = bin_index(a), !.expect = bin_index(b)]
  /\ UNCHANGED <<av, mem, os, live, lifo, dead, nops>>

(* ------------------------- request sizes at the edges ------------------ *)

MaxSizeOps == 2

InitSizes == InitWith({65536}, {8192, 2097152}, {TRUE, FALSE}, {TRUE, FALSE})

NextSizes ==
  \/ \E n \in {0, 1, 24, 25, 5000, HUGE, HUGE + 1, SIZE_T_MOD - 1} :
       nops < MaxSizeOps /\ Malloc(n)
  \/ \E m \in DOMAIN live : nops < MaxSizeOps /\ Free(m)

SpecSizes == InitSizes /\ [][NextSizes]_vars

(* ------------------------- a break that is not aligned ----------------- *)

MaxAlignOps == 6

\* the break starts 8 bytes off a 16-byte boundary, with one page above it
InitAlign == InitWith({65544}, {4096}, {TRUE}, {TRUE, FALSE})

NextAlign ==
  \/ \E n \in {5000, 260000, 3600} : nops < MaxAlignOps /\ Malloc(n)

SpecAlign == InitAlign /\ [][NextAlign]_vars

(* ------------------------- a system that runs out ---------------------- *)

MaxFailOps == 4

\* past the range of requests
OUT == SIZE_T_MOD - 8

\* no mappings, and one or three pages above the break
InitFail == InitWith({65536}, {4096, 12288}, {FALSE}, {TRUE, FALSE})

NextFail ==
  \/ \E n \in {24, 104, 5000, OUT} : nops < MaxFailOps /\ Malloc(n)
  \/ \E m \in DOMAIN live : nops < MaxFailOps /\ Free(m)
  \/ \E m \in DOMAIN live : \E n \in {5000, OUT} : nops < MaxFailOps /\ Realloc(m, n)
  \/ \E a \in {8, 64} : \E n \in {5000, OUT} : nops < MaxFailOps /\ Memalign(a, n)
  \/ \E k \in {3, 32768} : nops < MaxFailOps /\ Calloc(k, 32768)
  \/ \E m \in DOMAIN live : Store(m)

SpecFail == InitFail /\ [][NextFail]_vars

(* ------------------------- realloc of filled payloads ------------------ *)

MaxReallocOps == 3

InitRealloc == InitWith({65536}, {2097152}, {TRUE}, {TRUE, FALSE})

NextRealloc ==
  \/ \E n \in {24, 40, 104, 300000} : nops < MaxReallocOps /\ Malloc(n)
  \/ \E m \in DOMAIN live : nops < MaxReallocOps /\ Free(m)
  \/ \E m \in DOMAIN live : \E n \in {24, 40, 104, 400, 400000} :
       nops < MaxReallocOps /\ Realloc(m, n)
  \/ \E m \in DOMAIN live : Store(m)

SpecRealloc == InitRealloc /\ [][NextRealloc]_vars

(* ------------------------- ten small chunks and a larger one ----------- *)

S3Count == 10

\* the payload held longest
Oldest == CHOOSE m \in DOMAIN live : \A x \in DOMAIN live : live[m].born <= live[x].born

InitS3 ==
  InitWith({65536, 65544, 131072}, {8192, 2097152}, {TRUE}, {TRUE, FALSE})

NextS3 ==
  \/ nops < S3Count /\ Malloc(24)
  \/ nops >= S3Count /\ nops < 2 * S3Count /\ live # <<>> /\ Free(Oldest)
  \/ nops = 2 * S3Count /\ Malloc(40)

SpecS3 == InitS3 /\ [][NextS3]_vars

(* ------------------------- fast-bin traffic ---------------------------- *)

MaxFastOps == 5

InitFast == InitWith({65536}, {2097152}, {TRUE}, {TRUE, FALSE})

NextFast ==
  \/ \E n \in {24, 40, 300} : nops < MaxFastOps /\ Malloc(n)
  \/ \E m \in DOMAIN live : nops < MaxFastOps /\ Free(m)

SpecFast == InitFast /\ [][NextFast]_vars

(* ------------------------- realloc to a smaller size ------------------- *)

MaxShrinkOps == 4

InitShrink == InitWith({65536}, {2097152}, {TRUE}, {TRUE, FALSE})

NextShrink ==
  \/ \E n \in {64, 400} : nops < MaxShrinkOps /\ Malloc(n)
  \/ \E m \in DOMAIN live : nops < MaxShrinkOps /\ Free(m)
  \/ \E m \in DOMAIN live : \E n \in {16, 32, 200} :
       nops < MaxShrinkOps /\ Realloc(m, n)

SpecShrink == InitShrink /\ [][NextShrink]_vars

(* ------------------------- chunks with mappings of their own ----------- *)

MaxMapOps == 3

InitMap == InitWith({65536}, {2097152}, {TRUE}, {TRUE, FALSE})

NextMap ==
  \/ \E n \in {24, 300000} : nops < MaxMapOps /\ Malloc(n)
  \/ \E m \in DOMAIN live : nops < MaxMapOps /\ Free(m)
  \/ \E m \in DOMAIN live : \E n \in {24, 300000, 600000} :
       nops < MaxMapOps /\ Realloc(m, n)
  \/ \E n \in {24, 300000} : nops < MaxMapOps /\ Memalign(4096, n)
  \/ nops < MaxMapOps /\ Calloc(10, 32768)
  \/ \E v \in {0, 1} : nops < MaxMapOps /\ Mallopt("M_MMAP_MAX", v)
  \/ nops < MaxMapOps /\ Mallopt("M_MMAP_THRESHOLD", 4096)

SpecMap == InitMap /\ [][NextMap]_vars

(* ------------------------- bulk allocation ----------------------------- *)

MaxBulkOps == 3

\* the arrays of sizes the client passes: small, mixed, and two whose
\* normalised sizes do not fit the size type, alone or together
BulkSizes ==
  {<<24>>, <<24, 100>>, <<40, 24, 300000>>,
   <<SIZE_T_MOD \div 2, SIZE_T_MOD \div 2>>, <<SIZE_T_MOD - SIZE_SZ>>}

InitBulk == InitWith({65536}, {2097152}, {TRUE}, {TRUE, FALSE})

NextBulk ==
  \/ nops < MaxBulkOps /\ Malloc(64)
  \/ \E m \in DOMAIN live : nops < MaxBulkOps /\ Free(m)
  \/ \E sizes \in BulkSizes : \E chunks \in {0} \cup DOMAIN live :
       nops < MaxBulkOps /\ Comalloc(Len(sizes), sizes, chunks)
  \/ \E n \in {0, 3} : \E e \in {24, 300000} : \E chunks \in {0} \cup DOMAIN live :
       nops < MaxBulkOps /\ IndependentCalloc(n, e, chunks)

SpecBulk == InitBulk /\ [][NextBulk]_vars

(* ------------------------- giving memory back -------------------------- *)

MaxTrimOps == 4

\* pads from nothing to nearly the whole range of the size type
TrimPads == {0, DEFAULT_SYS_PAGE_SIZE, 16 * DEFAULT_SYS_PAGE_SIZE,
             SIZE_T_MOD - 2 * DEFAULT_SYS_PAGE_SIZE, SIZE_T_MOD - 1}

InitTrim == InitWith({65536}, {2097152}, {TRUE}, {TRUE, FALSE})

NextTrim ==
  \/ \E n \in {24, 5000, 200000} : nops < MaxTrimOps /\ Malloc(n)
  \/ \E m \in DOMAIN live : nops < MaxTrimOps /\ Free(m)
  \/ \E pad \in TrimPads : nops < MaxTrimOps /\ Trim(pad)

SpecTrim == InitTrim /\ [][NextTrim]_vars

(* ------------------------- tuning -------------------------------------- *)

MaxTuneOps == 3

\* the five parameters mallopt knows, and one it does not
TuneParams ==
  {"M_MXFAST", "M_TRIM_THRESHOLD", "M_TOP_PAD", "M_MMAP_THRESHOLD", "M_MMAP_MAX",
   "M_OTHER"}

\* values below, at and above the ends of the range of M_MXFAST
TuneValues == {-1, 0, DEFAULT_MXFAST, MAX_FAST_SIZE, MAX_FAST_SIZE + 1,
               DEFAULT_SYS_PAGE_SIZE}

InitTune == InitWith({65536}, {2097152}, {TRUE}, {TRUE, FALSE})

NextTune ==
  \/ \E n \in {24, 72} : nops < MaxTuneOps /\ Malloc(n)
  \/ \E m \in DOMAIN live : nops < MaxTuneOps /\ Free(m)
  \/ \E p \in TuneParams : \E v \in TuneValues : nops < MaxTuneOps /\ Mallopt(p, v)

SpecTune == InitTune /\ [][NextTune]_vars

(* ------------------------- another user of the break ------------------- *)

MaxForeignOps == 4

\* how many times the other user extends the break
MaxForeign == 2

InitForeign == InitWith({65536}, {2097152}, {TRUE}, {TRUE, FALSE})

NextForeign ==
  \/ \E n \in {24, 5000, 140000} : nops < MaxForeignOps /\ Malloc(n)
  \/ \E m \in DOMAIN live : nops < MaxForeignOps /\ Free(m)
  \/ \E at \in {0, 1} : \E inc \in {16, 4096} :
       nops < MaxForeignOps /\ Cardinality(os.foreign) < MaxForeign /\ ForeignSbrk(at, inc)

SpecForeign == InitForeign /\ [][NextForeign]_vars

(* ------------------------- the counters of the space held -------------- *)

MaxAcctOps == 4

\* a break on or off a 16-byte boundary, with two pages or plenty above it
InitAcct == InitWith({65536, 65544}, {8192, 2097152}, {TRUE}, {TRUE, FALSE})

NextAcct ==
  \/ \E n \in {24, 5000, 300000} : nops < MaxAcctOps /\ Malloc(n)
  \/ \E m \in DOMAIN live : nops < MaxAcctOps /\ Free(m)
  \/ nops < MaxAcctOps /\ Trim(0)
  \/ \E inc \in {16, 4096} :
       nops < MaxAcctOps /\ Cardinality(os.foreign) < MaxForeign /\ ForeignSbrk(0, inc)

SpecAcct == InitAcct /\ [][NextAcct]_vars

(* ------------------------- calls followed store by store --------------- *)

MaxWriteOps == 5

InitWrites == InitWith({65536}, {2097152}, {TRUE}, {TRUE})

NextWrites ==
  \/ \E n \in {24, 300, 1000} : nops < MaxWriteOps /\ last.op # "writes" /\ Malloc(n)
  \/ \E m \in DOMAIN live : nops < MaxWriteOps /\ last.op # "writes" /\ Free(m)
  \/ \E m \in DOMAIN live : FreeWrites(m)
  \/ ConsolidateWrites
  \/ \E n \in {950} : SplitWrites(n)
  \/ WriteStep

SpecWrites == InitWrites /\ [][NextWrites]_vars

(* ------------------------- chunks of equal size in the bins ------------ *)

MaxBinOps == 7

InitBins == InitWith({65536}, {2097152}, {TRUE}, {TRUE})

NextBins ==
  \/ \E n \in {24, 900, 1000, 2000} : nops < MaxBinOps /\ Malloc(n)
  \/ \E m \in DOMAIN live : nops < MaxBinOps /\ Free(m)

SpecBins == InitBins /\ [][NextBins]_vars

(* ------------------------- the last remainder in the unsorted list ----- *)

\* the first RemSetupOps calls allocate, the later ones free and allocate
RemSetupOps == 4
MaxRemOps == 8

InitRemainder == InitWith({65536}, {2097152}, {TRUE}, {TRUE})

NextRemainder ==
  \/ \E n \in {24, 108, 276} : nops < RemSetupOps /\ Malloc(n)
  \/ \E n \in {100, 130} : nops >= RemSetupOps /\ nops < MaxRemOps /\ Malloc(n)
  \/ \E m \in DOMAIN live : nops >= RemSetupOps /\ nops < MaxRemOps /\ Free(m)

SpecRemainder == InitRemainder /\ [][NextRemainder]_vars

(* ------------------------- bin indices, and very large chunks ---------- *)

MaxIndexOps == 4

\* chunk sizes at the edges of the bins, of the range of unsigned int, and
\* beyond it
IndexSizes ==
  {32, 48, 240, 256, 272, 320, 512, 528, 1008, 1024, 65536, 1048576, 16777216,
   UINT_MOD - 16, UINT_MOD, UINT_MOD + 32, UINT_MOD + 528, 2 * UINT_MOD + 272}

\* no mapping is available, so that every request is served from the heap
InitIndex == InitWith({65536}, {536870912}, {FALSE}, {TRUE, FALSE})

NextIndex ==
  \/ \E a, b \in IndexSizes : nops = 0 /\ BinIndex(a, b)
  \/ \E n \in {24, UINT_MOD + 512, 2 * UINT_MOD + 256} :
       nops < MaxIndexOps /\ Malloc(n)
  \/ \E m \in DOMAIN live : nops < MaxIndexOps /\ Free(m)

SpecIndex == InitIndex /\ [][NextIndex]_vars

(* ------------------------- the order of the large bins ----------------- *)

\* the first OrderSetupOps calls allocate, the later ones free, allocate and
\* resize
OrderSetupOps == 4
MaxOrderOps == 7

InitOrder == InitWith({65536}, {2097152}, {TRUE}, {TRUE})

NextOrder ==
  \/ \E n \in {24, 900, 1000} : nops < OrderSetupOps /\ Malloc(n)
  \/ nops >= OrderSetupOps /\ nops < MaxOrderOps /\ Malloc(2000)
  \/ \E m \in DOMAIN live : nops >= OrderSetupOps /\ nops < MaxOrderOps /\ Free(m)
  \/ \E m \in DOMAIN live :
       nops >= OrderSetupOps /\ nops < MaxOrderOps /\ Realloc(m, 950)

SpecOrder == InitOrder /\ [][NextOrder]_vars

(* ------------------------- the drain of the unsorted list -------------- *)

\* the first DrainSetupOps calls allocate, the later ones free and allocate
DrainSetupOps == 4
MaxDrainOps == 8

InitDrain == InitWith({65536}, {2097152}, {TRUE}, {TRUE})

NextDrain ==
  \/ \E n \in {24, 100, 3800} : nops < DrainSetupOps /\ Malloc(n)
  \/ \E n \in {100, 130, 1000} : nops >= DrainSetupOps /\ nops < MaxDrainOps /\ Malloc(n)
  \/ \E m \in DOMAIN live : nops >= DrainSetupOps /\ nops < MaxDrainOps /\ Free(m)

SpecDrain == InitDrain /\ [][NextDrain]_vars

(* ------------------------- fast chunks pending at sysmalloc ------------ *)

\* the first SysSetupOps calls allocate, leaving little of top; the later ones
\* free and ask for more through each routine that allocates
SysSetupOps == 3
MaxSysOps == 6

InitSys == InitWith({65536}, {2097152}, {TRUE}, {TRUE})

NextSys ==
  \/ \E n \in {24, 100, 3800} : nops < SysSetupOps /\ Malloc(n)
  \/ \E n \in {130, 5000} : nops >= SysSetupOps /\ nops < MaxSysOps /\ Malloc(n)
  \/ \E m \in DOMAIN live : nops >= SysSetupOps /\ nops < MaxSysOps /\ Free(m)
  \/ \E m \in DOMAIN live :
       nops >= SysSetupOps /\ nops < MaxSysOps /\ Realloc(m, 130)
  \/ nops >= SysSetupOps /\ nops < MaxSysOps /\ Memalign(64, 100)
  \/ nops >= SysSetupOps /\ nops < MaxSysOps /\ IndependentCalloc(3, 24, 0)
  \/ nops >= SysSetupOps /\ nops < MaxSysOps /\ Comalloc(2, <<24, 100>>, 0)

SpecSys == InitSys /\ [][NextSys]_vars

(* ------------------------- fast bins and consolidation ----------------- *)

\* the calls that only allocate, and all calls
ConsSetupOps == 4
MaxConsOps == 8

\* the caps on fast-bin sizes mallopt is asked to set: the least, one below
\* and one at the default, and the greatest
ConsCaps == {0, 16, DEFAULT_MXFAST, MAX_FAST_SIZE}

InitCons == InitWith({65536}, {2097152}, {TRUE}, {TRUE})

NextCons ==
  \/ \E n \in {24, 1000} : nops < ConsSetupOps /\ Malloc(n)
  \/ nops >= ConsSetupOps /\ nops < MaxConsOps /\ Malloc(88)
  \/ \E m \in DOMAIN live : nops >= ConsSetupOps /\ nops < MaxConsOps /\ Free(m)
  \/ nops >= ConsSetupOps /\ nops < MaxConsOps /\ Trim(0)
  \/ \E v \in ConsCaps : nops >= ConsSetupOps /\ nops < MaxConsOps /\ Mallopt("M_MXFAST", v)

SpecCons == InitCons /\ [][NextCons]_vars

(* ------------------------- free of a large space ----------------------- *)

MaxThreshOps == 5

\* trim thresholds below and above the default
TrimThresholds == {2 * DEFAULT_SYS_PAGE_SIZE, 2 * DEFAULT_TRIM_THRESHOLD}

InitThresh == InitWith({65536}, {2097152}, {TRUE}, {TRUE})

NextThresh ==
  \/ \E n \in {24, 5000, 140000} : nops < MaxThreshOps /\ Malloc(n)
  \/ \E m \in DOMAIN live : nops < MaxThreshOps /\ Free(m)
  \/ \E v \in TrimThresholds :
       nops < MaxThreshOps /\ Mallopt("M_TRIM_THRESHOLD", v)

SpecThresh == InitThresh /\ [][NextThresh]_vars

(* ------------------------- the size of top ----------------------------- *)

MaxTopOps == 4

\* pads: none, one larger than any top here, and one within a page of the end
\* of the range of size_t
TopPads == {0, 4 * DEFAULT_SYS_PAGE_SIZE, SIZE_T_MOD - DEFAULT_SYS_PAGE_SIZE}

\* two pages of room or plenty, and no mappings to fall back on
InitTop == InitWith({65536}, {8192, 2097152}, {FALSE}, {TRUE, FALSE})

NextTop ==
  \/ \E n \in {24, 4072, 5000} : nops < MaxTopOps /\ Malloc(n)
  \/ \E m \in DOMAIN live : nops < MaxTopOps /\ Free(m)
  \/ \E m \in DOMAIN live : nops < MaxTopOps /\ Realloc(m, 4072)
  \/ \E pad \in TopPads : nops < MaxTopOps /\ Trim(pad)

SpecTop == InitTop /\ [][NextTop]_vars

(* ------------------------- alignments that are not powers of two ------- *)

MaxPow2Ops == 4

\* 24 and 48 are rounded up to 32 and 64; the last one lies above the
\* greatest power of two of the size type
Alignments == {8, 24, 48, 4096, SIZE_T_MOD \div 2, SIZE_T_MOD \div 2 + 16}

InitPow2 == InitWith({65536}, {2097152}, {TRUE}, {TRUE})

NextPow2 ==
  \/ \E n \in {24, 1000} : nops < MaxPow2Ops /\ Malloc(n)
  \/ \E m \in DOMAIN live : nops < MaxPow2Ops /\ Free(m)
  \/ \E a \in Alignments : \E n \in {24, 100} : nops < MaxPow2Ops /\ Memalign(a, n)

SpecPow2 == InitPow2 /\ [][NextPow2]_vars

(* ------------------------- what a client can observe ------------------- *)

\* the chunks on a fast-bin chain from p
RECURSIVE FastChain(_, _)
FastChain(p, fuel) ==
  IF p = 0 \/ fuel = 0 THEN {}
  ELSE {p} \cup FastChain(fd(Machine, p), fuel - 1)

\* the chunks on the list of bin from p on
RECURSIVE BinChain(_, _, _)
BinChain(bin, p, fuel) ==
  IF p = bin \/ p = 0 \/ fuel = 0 THEN {}
  ELSE {p} \cup BinChain(bin, fd(Machine, p), fuel - 1)

\* the chunks held in the fast bins
FastChunks ==
  UNION {FastChain(av.fastbins[i], LoopFuel) : i \in 0 .. (NFASTBINS - 1)}

\* the chunks held in the unsorted list and the bins
BinChunks ==
  IF av.max_fast = 0 THEN {}
  ELSE UNION {BinChain(bin_at(i), fd(Machine, bin_at(i)), LoopFuel) :
                i \in 1 .. (NBINS - 1)}

FreeChunks == FastChunks \cup BinChunks

\* [a, b) and [c, d) have a byte in common
Overlap(a, b, c, d) == a < b /\ c < d /\ a < d /\ c < b

\* the bytes of the payload m the client asked for have a byte in common with
\* the body of chunk p
InChunk(m, p) ==
  Overlap(m, m + live[m].req, p + SIZE_SZ, p + chunksize(Machine, p) + SIZE_SZ)

\* the request is past the range of sizes, in unbounded arithmetic
OutOfRange(n) == n + 2 * MINSIZE >= SIZE_T_MOD

AllocOps == {"malloc", "realloc", "memalign", "calloc"}

\* the words of the bins array
BinWords(m) ==
  [a \in {x \in DOMAIN m : x >= AV_BINS /\ x < AV_BINS + 16 * NBINS} |-> m[a]]

\* the end of the payload of chunk p
PayloadEnd(p) ==
  IF chunk_is_mmapped(Machine, p) THEN p + chunksize(Machine, p)
  ELSE p + chunksize(Machine, p) + SIZE_SZ

\* the chunk of payload m is what it was before the last call: in use, of the
\* same size, on no free list, every payload word as it was
SameChunk(m) ==
  /\ chunksize(Machine, mem2chunk(m)) = AlignDown(Rd(last.mem0, mem2chunk(m) + SIZE_SZ), 4)
  /\ chunk_is_mmapped(Machine, mem2chunk(m)) \/ inuse(Machine, mem2chunk(m))
  /\ mem2chunk(m) \notin FreeChunks
  /\ mem2chunk(m) # av.top
  /\ \A x \in {y \in DOMAIN mem \cup DOMAIN last.mem0 :
                 y >= m /\ y < PayloadEnd(mem2chunk(m))} :
       Rd(mem, x) = Rd(last.mem0, x)

\* the call before this state changed nothing but errno
OnlyErrno ==
  /\ av = last.av0
  /\ mem = last.mem0
  /\ os = [last.os0 EXCEPT !.errno = ENOMEM]

(* ------------------------- C1 ------------------------------------------ *)

\* C1: after any sequence of calls, the payloads handed out and not yet freed
\* are pairwise disjoint (no call returns a payload that is still held), and
\* none has a byte in common with a chunk of a fast bin, of the unsorted list,
\* of a bin, or with top.
C1_PayloadsDisjoint ==
  ~dead =>
    /\ ~last.dup
    /\ \A m1 \in DOMAIN live : \A m2 \in DOMAIN live :
         m1 # m2 => ~Overlap(m1, m1 + live[m1].req, m2, m2 + live[m2].req)
    /\ \A m \in DOMAIN live : \A p \in FreeChunks : ~InChunk(m, p)
    /\ \A m \in DOMAIN live :
         av.top # 0 /\ av.top # initial_top =>
           ~Overlap(m, m + live[m].req, av.top + SIZE_SZ,
                    av.top + chunksize(Machine, av.top))

(* ------------------------- C2 ------------------------------------------ *)

C3_OverflowGivesNull ==
  (~dead /\ last.op = "calloc" /\ last.a1 * last.a2 >= SIZE_T_MOD) => last.ret = 0

(* ------------------------- C4 ------------------------------------------ *)

\* max(MINSIZE, align_up(n + SIZE_SZ, MALLOC_ALIGNMENT)) in unbounded arithmetic
ExactSize(n) ==
  IF n + SIZE_SZ + MALLOC_ALIGN_MASK < MINSIZE THEN MINSIZE
  ELSE ((n + SIZE_SZ + MALLOC_ALIGN_MASK) \div MALLOC_ALIGNMENT) * MALLOC_ALIGNMENT

\* request sizes around both ends of the range
EdgeRequests == (0 .. 40) \cup ((SIZE_T_MOD - 100) .. (SIZE_T_MOD - 1))

\* C4: malloc(n) refuses an n out of range with null and ENOMEM and changes
\* nothing else; a payload it returns is for an n in range and has a usable
\* size of at least n (of a chunk of MINSIZE bytes for n = 0); for an n in
\* range the normalised size is the exact one, and neither it nor it plus
\* MINSIZE wraps.
C4_RangeAndUsable ==
  /\ (~dead /\ last.op = "malloc") =>
       /\ OutOfRange(last.a1) => last.ret = 0 /\ OnlyErrno
       /\ last.ret # 0 =>
            /\ ~OutOfRange(last.a1)
            /\ malloc_usable_size(Machine, last.ret) >= last.a1
            /\ last.a1 = 0 => chunksize(Machine, mem2chunk(last.ret)) = MINSIZE
  /\ \A n \in EdgeRequests \cup {last.a1} :
       /\ REQUEST_OUT_OF_RANGE(n) <=> OutOfRange(n)
       /\ ~OutOfRange(n) =>
            /\ request2size(n) = ExactSize(n)
            /\ ExactSize(n) + MINSIZE < SIZE_T_MOD

\* a request out of range was refused while a chunk is held
C4_Witness ==
  /\ ~dead
  /\ last.op = "malloc"
  /\ OutOfRange(last.a1)
  /\ last.ret = 0
  /\ live # <<>>

(* ------------------------- C5 ------------------------------------------ *)

\* C5: every payload malloc returns is a multiple of MALLOC_ALIGNMENT,
\* whatever address the break was at.
C5_PayloadAligned ==
  (~dead /\ last.op = "malloc" /\ last.ret # 0) => last.ret % MALLOC_ALIGNMENT = 0

(* ------------------------- C6 ------------------------------------------ *)

C7_FailedReallocKeepsChunk ==
  (~dead /\ last.op = "realloc" /\ last.ret = 0) =>
    /\ last.a1 \in DOMAIN live
    /\ live[last.a1] = last.live0[last.a1]
    /\ SameChunk(last.a1)

\* a realloc of a stored payload failed because its malloc failed
C7_Witness ==
  /\ ~dead
  /\ last.op = "realloc"
  /\ last.ret = 0
  /\ ~OutOfRange(last.a2)
  /\ last.nsys > 0
  /\ last.a1 \in DOMAIN live
  /\ live[last.a1].data > 0

(* ------------------------- C8 ------------------------------------------ *)

\* the alignment rounded up to a power of two, at least MALLOC_ALIGNMENT
RECURSIVE RoundedAlignment(_, _)
RoundedAlignment(a, b) == IF b >= a THEN b ELSE RoundedAlignment(a, 2 * b)

\* C8: memalign(a, n) returns null or a payload that is a multiple of the
\* rounded alignment and has a usable size of at least n; it returns null
\* when the size of the request, the alignment and MINSIZE together do not
\* fit the size type.
C8_AlignedOrNull ==
  (~dead /\ last.op = "memalign" /\ last.ret # 0) =>
    /\ last.ret % RoundedAlignment(last.a1, MALLOC_ALIGNMENT) = 0
    /\ malloc_usable_size(Machine, last.ret) >= last.a2
    /\ (last.a1 > MALLOC_ALIGNMENT =>
          ExactSize(last.a2) + RoundedAlignment(last.a1, MALLOC_ALIGNMENT) + MINSIZE
            < SIZE_T_MOD)

(* ------------------------- C9 ------------------------------------------ *)

\* the run of ten malloc(24), ten free and malloc(40) is over
S3Done == ~dead /\ nops = 2 * S3Count + 1 /\ last.op = "malloc" /\ last.a1 = 40

\* C9 as stated: malloc(40) consolidates the fast bins and is served by a
\* chunk of the bins, not by top, without a system call.
C9_ConsolidatedMerge ==
  S3Done => last.ncons > 0 /\ last.nsys = 0 /\ last.ret # 0 /\ last.path # "top"

\* C9, amended: malloc(40) is served from top without consolidation and
\* without a system call; the ten freed chunks stay in their fast bin and the
\* payload returned lies in none of them.
C9_ServedFromTop ==
  S3Done =>
    /\ last.ncons = 0
    /\ last.nsys = 0
    /\ last.path = "top"
    /\ last.ret # 0
    /\ have_fastchunks(av)
    /\ Cardinality(FastChain(av.fastbins[fastbin_index(request2size(24))], LoopFuel))
         = S3Count
    /\ BinChunks = {}
    /\ \A p \in FastChunks :
         ~Overlap(last.ret, last.ret + 40, p, p + chunksize(Machine, p))

\* the run is over and malloc(40) gave a payload
C9_Witness == S3Done /\ last.ret # 0 /\ live # <<>> /\ FastChunks # {}

(* ------------------------- C10 ----------------------------------------- *)

\* C10: a malloc whose normalised size has residents in its fast bin returns
\* the resident freed last, from the fast bin.
C10_FastbinLIFO ==
  (~dead /\ last.op = "malloc" /\ last.expect # 0) =>
    last.ret = last.expect /\ last.path = "fastbin"

\* a malloc took the resident freed last and an older one stays behind
C10_Witness ==
  /\ ~dead
  /\ last.op = "malloc"
  /\ last.expect # 0
  /\ last.ret = last.expect
  /\ \E i \in 1 .. Len(lifo) :
       lifo[i].size = request2size(last.a1) /\ lifo[i].ptr < last.ret

(* ------------------------- C11 ----------------------------------------- *)

\* the head of the chunk of payload m before the last call
OldHead(m) == Rd(last.mem0, U(mem2chunk(m) + SIZE_SZ))

\* the size of the chunk of payload m before the last call
OldSize(m) == AlignDown(OldHead(m), 4)

\* the chunks of the unsorted list
UnsortedChunks ==
  IF av.max_fast = 0 THEN {}
  ELSE BinChain(unsorted_chunks, fd(Machine, unsorted_chunks), LoopFuel)

\* the last call was a realloc of a held chunk of the heap to a size that
\* leaves a remainder of at least MINSIZE bytes
ShrinkCase ==
  /\ ~dead
  /\ last.op = "realloc"
  /\ last.a1 \in DOMAIN last.live0
  /\ ~OutOfRange(last.a2)
  /\ (OldHead(last.a1) \div 2) % 2 = 0
  /\ OldSize(last.a1) >= request2size(last.a2) + MINSIZE

\* where the remainder of the last realloc starts, and its size
ShrinkRest == U(mem2chunk(last.a1) + request2size(last.a2))
ShrinkRestSize == OldSize(last.a1) - request2size(last.a2)

\* C11 as stated: a realloc that shrinks a chunk and leaves a remainder of at
\* least MINSIZE bytes returns the pointer it was given, and the remainder is
\* in the unsorted list.
C11_RemainderUnsorted ==
  ShrinkCase => last.ret = last.a1 /\ ShrinkRest \in UnsortedChunks

\* C11, amended: such a realloc returns the pointer it was given, its chunk
\* has the normalised size of the request and is in use, and the remainder has
\* gone through free: it heads its fast bin when its size is at most
\* max_fast; otherwise it starts top, or a chunk of the unsorted list that is
\* at least as large.
C11_RemainderFreed ==
  ShrinkCase =>
    /\ last.ret = last.a1
    /\ chunksize(Machine, mem2chunk(last.a1)) = request2size(last.a2)
    /\ inuse(Machine, mem2chunk(last.a1))
    /\ IF ShrinkRestSize <= last.av0.max_fast
         THEN /\ av.fastbins[fastbin_index(ShrinkRestSize)] = ShrinkRest
              /\ chunksize(Machine, ShrinkRest) = ShrinkRestSize
              /\ ShrinkRest \notin UnsortedChunks
         ELSE \/ av.top = ShrinkRest
              \/ /\ ShrinkRest \in UnsortedChunks
                 /\ chunksize(Machine, ShrinkRest) >= ShrinkRestSize

\* a realloc shrank a chunk whose neighbour is held, and the remainder is in
\* the unsorted list
C11_Witness ==
  /\ ShrinkCase
  /\ last.ret = last.a1
  /\ ShrinkRest \in UnsortedChunks
  /\ av.top # ShrinkRest

(* ------------------------- C12 ----------------------------------------- *)

\* the payloads held whose chunk has IS_MMAPPED set
MappedLive == {m \in DOMAIN live : chunk_is_mmapped(Machine, mem2chunk(m))}

\* the region free() would unmap for the payload m: base and length
Mapping(m) ==
  <<U(mem2chunk(m) - prev_size(Machine, mem2chunk(m))),
    U(chunksize(Machine, mem2chunk(m)) + prev_size(Machine, mem2chunk(m)))>>

\* the sum of the lengths of a set of regions
RECURSIVE TotalLength(_)
TotalLength(R) ==
  IF R = {} THEN 0
  ELSE LET r == CHOOSE x \in R : TRUE IN r[2] + TotalLength(R \ {r})

\* C12: a payload served by a mapping of its own (also one that memalign moved
\* forward) has IS_MMAPPED set, and its chunk and prev_size name the mapping
\* the system made, so free() unmaps exactly that; the mappings in place are
\* those of the held mapped chunks, n_mmaps is their number and mmapped_mem the
\* sum of their lengths, both 0 when none is held.
C12_MappedAccounting ==
  ~dead =>
    /\ (last.op \in AllocOps /\ last.path = "mmap") => last.ret \in MappedLive
    /\ \A m \in MappedLive : Mapping(m) \in os.maps
    /\ os.maps = {Mapping(m) : m \in MappedLive}
    /\ Cardinality(os.maps) = Cardinality(MappedLive)
    /\ av.n_mmaps = Cardinality(MappedLive)
    /\ av.mmapped_mem = TotalLength(os.maps)
    /\ MappedLive = {} => av.n_mmaps = 0 /\ av.mmapped_mem = 0

\* free() of a mapped chunk that memalign had moved forward took the last
\* mapping away
C12_Witness ==
  /\ ~dead
  /\ last.op = "free"
  /\ (OldHead(last.a1) \div 2) % 2 = 1
  /\ Rd(last.mem0, mem2chunk(last.a1)) > 0
  /\ last.os0.maps # {}
  /\ os.maps = {}
  /\ av.n_mmaps = 0
  /\ av.mmapped_mem = 0

(* ------------------------- C13 ----------------------------------------- *)

\* the sum of the exact normalised sizes of the first n elements of a bulk
\* call with arguments a, or -1 when it does not fit the size type
RECURSIVE ExactTotal(_, _)
ExactTotal(a, n) ==
  IF n = 0 THEN 0
  ELSE LET t == ExactTotal(a, n - 1)
           e == ExactSize(ElementRequest(a, n))
       IN  IF t < 0 \/ OutOfRange(ElementRequest(a, n)) \/ e >= SIZE_T_MOD - t
             THEN -1 ELSE t + e

\* the elements of the last bulk call, and the pointer array if the allocator
\* is to make it, fit the size type together
BulkFits ==
  /\ ExactTotal(last.a2, last.a1) >= 0
  /\ last.a2.chunks = 0 =>
       ExactSize(last.a1 * SIZE_SZ) < SIZE_T_MOD - ExactTotal(last.a2, last.a1)

\* the chunk of element i (from 0) of the last bulk call
Element(i) == mem2chunk(Rd(mem, U(last.ret + SIZE_SZ * i)))

\* C13: a bulk call for k >= 1 elements ends, with null when the normalised
\* sizes do not fit the size type together; the payloads it returns are k
\* chunks in a row, none mapped, each in use with PREV_INUSE set and at least
\* as large as the normalised size asked for it, the pointer array following
\* the last one when the allocator made it.
C13_BulkCarved ==
  (last.op \in BulkOps /\ last.a1 >= 1) =>
    /\ ~dead
    /\ ~BulkFits => last.ret = 0
    /\ last.ret # 0 =>
         /\ \A i \in 0 .. (last.a1 - 1) :
              /\ chunksize(Machine, Element(i))
                   >= ExactSize(ElementRequest(last.a2, i + 1))
              /\ prev_inuse(Machine, Element(i))
              /\ inuse(Machine, Element(i))
              /\ ~chunk_is_mmapped(Machine, Element(i))
              /\ i < last.a1 - 1 =>
                   Element(i + 1) = Element(i) + chunksize(Machine, Element(i))
         /\ last.a2.chunks = 0 =>
              mem2chunk(last.ret)
                = Element(last.a1 - 1) + chunksize(Machine, Element(last.a1 - 1))

(* ------------------------- C14 ----------------------------------------- *)

\* C14: after malloc_trim(k), whatever k and the state it was called in, a
\* second malloc_trim(k) right away returns 0.
C14_SecondTrimNothing ==
  (~dead /\ last.op = "malloc_trim") => malloc_trim(Machine, last.a1).r = 0

\* a malloc_trim gave pages back to the system, and a second one finds none
C14_Witness ==
  /\ ~dead
  /\ last.op = "malloc_trim"
  /\ last.ret = 1
  /\ os.brk < last.os0.brk
  /\ av.sbrked_mem < last.av0.sbrked_mem
  /\ chunksize(Machine, av.top) >= av.pagesize
  /\ malloc_trim(Machine, last.a1).r = 0

(* ------------------------- C15 ----------------------------------------- *)

\* the tunables in force in the state a: those stored, the flag bits of
\* max_fast left out, or the defaults the first call will store when the state
\* is still all zero
Tunables(a) ==
  IF a.max_fast = 0
    THEN [max_fast |-> request2size(DEFAULT_MXFAST),
          trim_threshold |-> DEFAULT_TRIM_THRESHOLD, top_pad |-> DEFAULT_TOP_PAD,
          mmap_threshold |-> DEFAULT_MMAP_THRESHOLD, mmap_max |-> DEFAULT_MMAP_MAX]
    ELSE [max_fast |-> AlignDown(a.max_fast, 4), trim_threshold |-> a.trim_threshold,
          top_pad |-> a.top_pad, mmap_threshold |-> a.mmap_threshold,
          mmap_max |-> a.n_mmaps_max]

\* mallopt(p, v) is to be applied
TuneApplies(p, v) ==
  /\ p \in TuneParams \ {"M_OTHER"}
  /\ p = "M_MXFAST" => 0 <= v /\ v <= MAX_FAST_SIZE

\* the tunables t after mallopt(p, v) was applied
Tuned(t, p, v) ==
  IF p = "M_MXFAST"
    THEN [t EXCEPT !.max_fast = IF v = 0 THEN SMALLBIN_WIDTH ELSE ExactSize(v)]
  ELSE IF p = "M_TRIM_THRESHOLD" THEN [t EXCEPT !.trim_threshold = v % SIZE_T_MOD]
  ELSE IF p = "M_TOP_PAD" THEN [t EXCEPT !.top_pad = v % SIZE_T_MOD]
  ELSE IF p = "M_MMAP_THRESHOLD" THEN [t EXCEPT !.mmap_threshold = v % SIZE_T_MOD]
  ELSE [t EXCEPT !.mmap_max = v]

\* C15: mallopt(p, v) returns 1 exactly when p is one of the five parameters
\* and, for M_MXFAST, 0 <= v <= MAX_FAST_SIZE; it then sets the tunable named
\* and leaves the other four as they were; when it returns 0 all five are as
\* they were.  (The tunables of an allocator not yet initialised are the
\* defaults.)
C15_TuneFrame ==
  (~dead /\ last.op = "mallopt") =>
    /\ last.ret = (IF TuneApplies(last.a1, last.a2) THEN 1 ELSE 0)
    /\ Tunables(av) = IF TuneApplies(last.a1, last.a2)
                        THEN Tuned(Tunables(last.av0), last.a1, last.a2)
                        ELSE Tunables(last.av0)

\* mallopt refused a value of M_MXFAST above the ceiling on an initialised
\* allocator whose tunables had been changed before
C15_Witness ==
  /\ ~dead
  /\ last.op = "mallopt"
  /\ last.a1 = "M_MXFAST"
  /\ last.a2 > MAX_FAST_SIZE
  /\ last.ret = 0
  /\ last.av0.max_fast # 0
  /\ Tunables(last.av0) # Tunables(AV0)

(* ------------------------- C16 ----------------------------------------- *)

\* the chunk after p in memory
After(p) == chunk_at_offset(p, chunksize(Machine, p))

C17_BoundaryTags ==
  ~dead =>
    /\ \A p \in BinChunks :
         /\ prev_size(Machine, After(p)) = chunksize(Machine, p)
         /\ ~prev_inuse(Machine, After(p))
    /\ \A m \in DOMAIN live \ MappedLive : prev_inuse(Machine, After(mem2chunk(m)))
    /\ \A p \in FastChunks : prev_inuse(Machine, After(p))

(* ------------------------- C18 ----------------------------------------- *)

\* where the space the allocator obtained last ends: the end of the mapping
\* top lies in, or else the break
HeapEnd ==
  IF \E r \in os.maps : av.top >= r[1] /\ av.top < r[1] + r[2]
    THEN LET r == CHOOSE x \in os.maps : av.top >= x[1] /\ av.top < x[1] + x[2]
         IN  r[1] + r[2]
    ELSE os.brk

\* the same of every top, the placeholder included
AnyTopAtHeapEnd ==
  (~dead /\ av.max_fast # 0) =>
    /\ av.top \notin FreeChunks
    /\ prev_inuse(Machine, av.top)
    /\ av.top + chunksize(Machine, av.top) = HeapEnd

\* C18, for a top that is a chunk of the heap (before the first extension top
\* is initial_top, a placeholder of size 0 whose head reads 0): between calls
\* top is in no fast bin, unsorted list or bin, its head has PREV_INUSE set,
\* and it ends where the heap ends.
C18_RealTopAtHeapEnd ==
  (~dead /\ av.max_fast # 0 /\ av.top # initial_top) =>
    /\ av.top \notin FreeChunks
    /\ prev_inuse(Machine, av.top)
    /\ av.top + chunksize(Machine, av.top) = HeapEnd

(* ------------------------- C20 ----------------------------------------- *)

\* the chunk at p covers bytes another user of the break obtained
CoversForeign(p) ==
  \E f \in os.foreign : p < f[1] + f[2] /\ f[1] < p + chunksize(Machine, p)

\* the chunks of the heap the allocator knows: top, the free ones and those of
\* the payloads the client holds
KnownChunks ==
  (IF av.top \in {0, initial_top} THEN {} ELSE {av.top})
    \cup FreeChunks
    \cup {mem2chunk(m) : m \in DOMAIN live \ MappedLive}

\* C20: whenever another user extends the break, also between two calls the
\* allocator makes to the system within one routine, no chunk (top, free or
\* held by the client) covers bytes that user obtained.
C20_NoForeignBytes ==
  ~dead => \A p \in KnownChunks : ~CoversForeign(p)

(* ------------------------- C19 ----------------------------------------- *)

\* the mappings that serve as heap after sbrk failed: those in place that
\* belong to no held chunk
FallbackMaps == os.maps \ {Mapping(m) : m \in MappedLive}

\* the first chunk at or above the break b: b moved up to where a payload
\* would be aligned
FirstChunk(b) ==
  b + ((MALLOC_ALIGNMENT - ((b + 2 * SIZE_SZ) % MALLOC_ALIGNMENT)) % MALLOC_ALIGNMENT)

\* where the allocator found the break when it had to start a run of chunks:
\* where the break began and where another user left it, if the break has
\* moved on from there by the allocator's doing
OwnBreaks ==
  {b \in {os.brk0} \cup {f[1] + f[2] : f \in os.foreign} :
     b < os.brk /\ \A f \in os.foreign : f[1] # b}

\* where the runs of chunks begin
RunStarts == {FirstChunk(b) : b \in OwnBreaks} \cup {r[1] : r \in FallbackMaps}

\* the sizes of the chunks from p on, up to and including top or a pair of
\* fenceposts
RECURSIVE RunSize(_, _)
RunSize(p, fuel) ==
  IF fuel = 0 THEN 0
  ELSE IF p = av.top THEN chunksize(Machine, p)
  ELSE IF chunksize(Machine, p) = SIZE_SZ THEN 2 * SIZE_SZ
  ELSE IF chunksize(Machine, p) < MINSIZE THEN 0
  ELSE chunksize(Machine, p) + RunSize(p + chunksize(Machine, p), fuel - 1)

\* the sum of the sizes of the runs starting at the addresses P
RECURSIVE RunsSize(_)
RunsSize(P) ==
  IF P = {} THEN 0
  ELSE LET p == CHOOSE x \in P : TRUE IN RunSize(p, LoopFuel) + RunsSize(P \ {p})

\* the sizes of all chunks of the heap: held, free, in fast bins, and top
ChunkSum == RunsSize(RunStarts)

\* mmapped_mem is the sum of the lengths of the mappings of held chunks
MappedCounted == av.mmapped_mem = TotalLength({Mapping(m) : m \in MappedLive})

OwnBytes == (os.brk - os.brk0) - TotalLength(os.foreign) + TotalLength(FallbackMaps)

Writing == ~dead /\ last.op = "writes"

\* the chunk being placed is on the unsorted list: the list's header points at it
Listed == fd(Machine, unsorted_chunks) = last.a2.p \/ bk(Machine, unsorted_chunks) = last.a2.p

\* the stores among the first n of the call under way that write the head or
\* the foot of the chunk being placed
TagWrites(n) ==
  {i \in 1 .. n : last.a2.ws[i].f \in {"head", "foot"} /\ last.a2.ws[i].p = last.a2.p}

\* head and foot of the chunk being placed have both been written
Tagged == TagWrites(last.a1) = TagWrites(Len(last.a2.ws))

\* C21 as stated: at no step inside free, malloc_consolidate or a split of
\* malloc is a chunk on the unsorted list while its head or foot is still to
\* be written.
C21_TaggedBeforeListed == (Writing /\ Listed) => Tagged

\* what the routine itself makes of the state the call started from, up to the
\* point after the stores followed
Placed ==
  IF last.a2.site = "free"
    THEN free_coalesce(Machine0, mem2chunk(last.a2.arg),
                       chunksize(Machine0, mem2chunk(last.a2.arg))).st
  ELSE IF last.a2.site = "consolidate"
    THEN consolidate_chunk(consolidate_first(Machine0), last.a2.arg)
  ELSE malloc_large(malloc_drained(Machine0, last.a2.arg), last.a2.arg)

\* C21: in free, malloc_consolidate and a split of malloc the chunk is put on
\* the unsorted list first and its head and foot are written after that, within
\* the same call: no head or foot is written before the list's header points at
\* the chunk, and after the last of these stores the chunk is on the list with
\* its head and foot written, in the state the routine computes.
C21_ListedThenTagged ==
  Writing =>
    /\ TagWrites(last.a1) # {} => Listed
    /\ last.a1 = Len(last.a2.ws) =>
         /\ Listed /\ Tagged
         /\ head(Machine, last.a2.p) = OrBit(last.a2.size, PREV_INUSE)
         /\ prev_size(Machine, chunk_at_offset(last.a2.p, last.a2.size)) = last.a2.size
         /\ av = Placed.av /\ mem = Placed.mem

\* free() has written the last of its stores for a chunk it merged with a
\* neighbour, whose head therefore changed after the chunk was on the list
C21_Witness ==
  /\ Writing
  /\ last.a2.site = "free"
  /\ last.a1 = Len(last.a2.ws)
  /\ last.a2.size # chunksize(Machine0, mem2chunk(last.a2.arg))

(* ------------------------- C22 ----------------------------------------- *)

\* the chunks of the list of bin in state s from p on, in the order the
\* allocator scans them: from the tail, along bk
RECURSIVE FromTail(_, _, _, _)
FromTail(s, bin, p, fuel) ==
  IF p = bin \/ p = 0 \/ fuel = 0 THEN <<>>
  ELSE <<p>> \o FromTail(s, bin, bk(s, p), fuel - 1)

\* the chunks of bin i in state s, tail first
TailFirst(s, i) == FromTail(s, bin_at(i), bk(s, bin_at(i)), LoopFuel)

\* the elements of a sequence
Range(q) == {q[k] : k \in 1 .. Len(q)}

\* x comes before y in the sequence q
Before(q, x, y) ==
  \E j, k \in 1 .. Len(q) : j < k /\ q[j] = x /\ q[k] = y

\* the bin the chunk p of state s belongs in
BinOf(s, p) == bin_index(chunksize(s, p))

\* x was put in bin i before y was, as far as the last call shows: x was in the
\* bin when the call began and y went in during the call, or both went in
\* during the call, x first (the drain takes the unsorted list from its tail)
BinnedEarlier(i, x, y) ==
  \/ x \in Range(TailFirst(Machine0, i)) /\ y \in Range(TailFirst(Machine0, 1))
  \/ Before(TailFirst(Machine0, 1), x, y)

\* the large bins a call touched: those of the chunks the unsorted list held
\* when it began
DrainedBins ==
  {BinOf(Machine0, p) : p \in Range(TailFirst(Machine0, 1))} \ (0 .. (NSMALLBINS - 1))

\* C22: after malloc has binned chunks, of two chunks of equal size in a large
\* bin the one binned earlier is nearer the tail, where the scans of malloc
\* begin, whatever other sizes the bin holds.
C22_EqualSizesKeepOrder ==
  (~dead /\ last.op = "malloc") =>
    \A i \in DrainedBins :
      \A x, y \in Range(TailFirst(Machine, i)) :
        (/\ chunksize(Machine, x) = chunksize(Machine, y)
         /\ chunksize(Machine0, x) = chunksize(Machine, x)
         /\ chunksize(Machine0, y) = chunksize(Machine, y)
         /\ BinnedEarlier(i, x, y))
          => Before(TailFirst(Machine, i), x, y)

(* ------------------------- C23 ----------------------------------------- *)

\* the state in which the last call of malloc reached its loop over the
\* unsorted list
AtDrain == malloc_exact([Machine0 EXCEPT !.r = 0, !.path = ""], request2size(last.a1))

\* the chunk that loop examines first
DrainVictim == bk(AtDrain, unsorted_chunks)

\* the last call was a malloc for a small size whose loop found, as the only
\* chunk of the unsorted list, the last remainder
LoneRemainder ==
  /\ ~dead
  /\ last.op = "malloc"
  /\ ~REQUEST_OUT_OF_RANGE(last.a1)
  /\ in_smallbin_range(request2size(last.a1))
  /\ have_anychunks(last.av0)
  /\ ~Done(AtDrain)
  /\ DrainVictim # unsorted_chunks
  /\ bk(AtDrain, DrainVictim) = unsorted_chunks
  /\ DrainVictim = last.av0.last_remainder

\* the call returned the front of that chunk; the rest of it is the only chunk
\* of the unsorted list and the new last remainder
RemainderSplit ==
  LET nb == request2size(last.a1)
  IN  /\ last.ret = chunk2mem(DrainVictim)
      /\ chunksize(Machine, DrainVictim) = nb
      /\ TailFirst(Machine, 1) = <<DrainVictim + nb>>
      /\ av.last_remainder = DrainVictim + nb
      /\ chunksize(Machine, DrainVictim + nb) = chunksize(AtDrain, DrainVictim) - nb

\* C23 as stated: the lone last remainder is split exactly when it is at least
\* MINSIZE larger than the request, the size nb + MINSIZE included.
C23_SplitWhenAtLeast ==
  LoneRemainder =>
    (RemainderSplit <=>
       chunksize(AtDrain, DrainVictim) >= request2size(last.a1) + MINSIZE)

\* C23, amended: the loop splits the lone last remainder exactly when it is
\* more than MINSIZE larger than the request; one that is exactly MINSIZE
\* larger is binned, and the call is served by the scan of the bins, from a
\* chunk that is at most that large
C23_SplitWhenLarger ==
  LoneRemainder =>
    LET nb   == request2size(last.a1)
        size == chunksize(AtDrain, DrainVictim)
    IN  /\ (last.path = "remainder") <=> (size > nb + MINSIZE)
        /\ (last.path = "remainder") => RemainderSplit
        /\ (size = nb + MINSIZE) =>
             /\ last.path = "binscan"
             /\ chunksize(AtDrain, mem2chunk(last.ret)) >= nb
             /\ chunksize(AtDrain, mem2chunk(last.ret)) <= nb + MINSIZE

\* the lone last remainder was exactly MINSIZE larger than the request, and
\* the call returned another chunk
C23_Witness ==
  /\ LoneRemainder
  /\ chunksize(AtDrain, DrainVictim) = request2size(last.a1) + MINSIZE
  /\ last.ret # chunk2mem(DrainVictim)
  /\ ~RemainderSplit

\* the lone last remainder was more than MINSIZE larger, and the loop split it
C23_SplitReached ==
  /\ LoneRemainder
  /\ last.path = "remainder"
  /\ RemainderSplit

(* ------------------------- C24 ----------------------------------------- *)

\* the chunks in the normal bins of state s
Binned(s) == UNION {Range(TailFirst(s, i)) : i \in 2 .. (NBINS - 1)}

\* those of at least nb bytes
Fitting(s, nb) == {p \in Binned(s) : chunksize(s, p) >= nb}

\* the state in which the last call of malloc left its loop over the unsorted
\* list
Drained == malloc_drained(Machine0, request2size(last.a1))

\* the last call was a malloc for a large size that the unsorted list did not
\* serve
LargeFromBins ==
  /\ ~dead
  /\ last.op = "malloc"
  /\ ~REQUEST_OUT_OF_RANGE(last.a1)
  /\ ~in_smallbin_range(request2size(last.a1))
  /\ have_anychunks(last.av0)
  /\ ~Done(Drained)

\* C24: a large request that is not an exact fit from the unsorted list is cut
\* from a binned chunk of the smallest size that fits, and goes to top or to
\* the system only when no binned chunk fits.
C24_BestFit ==
  LargeFromBins =>
    LET nb   == request2size(last.a1)
        fits == Fitting(Drained, nb)
        p    == mem2chunk(last.ret)
    IN  IF fits = {}
          THEN last.path \notin {"largebin", "binscan"}
          ELSE /\ last.path \in {"largebin", "binscan"}
               /\ p \in fits
               /\ \A q \in fits : chunksize(Drained, p) <= chunksize(Drained, q)
               /\ chunksize(Machine, p) >= nb
               /\ chunksize(Machine, p) <= chunksize(Drained, p)

\* a large request was cut from the smaller of two binned chunks that fit, the
\* larger of them nearer the bin's head in the same bin
C24_Witness ==
  /\ LargeFromBins
  /\ last.path = "largebin"
  /\ \E q \in Fitting(Drained, request2size(last.a1)) :
       /\ chunksize(Drained, q) > chunksize(Drained, mem2chunk(last.ret))
       /\ BinOf(Drained, q) = BinOf(Drained, mem2chunk(last.ret))

\* a large request was cut from a chunk of a bin above its own
C24_ScanReached ==
  /\ LargeFromBins
  /\ last.path = "binscan"
  /\ Fitting(Drained, request2size(last.a1)) # {}

\* a large request found nothing binned that fits and went to top
C24_TopReached ==
  /\ LargeFromBins
  /\ Fitting(Drained, request2size(last.a1)) = {}
  /\ Binned(Drained) # {}
  /\ last.ret # 0

(* ------------------------- C25 ----------------------------------------- *)

\* C25: bin_index does not decrease as the chunk size grows, over the sizes of
\* the range of unsigned int and over those beyond it.
C25_IndexMonotonic ==
  (last.op = "bin_index" /\ last.a1 <= last.a2) => last.ret <= last.expect

\* the same over the sizes that fit in an unsigned int
C25_IndexMonotonicInRange ==
  (last.op = "bin_index" /\ last.a1 <= last.a2 /\ last.a2 < UINT_MOD)
    => last.ret <= last.expect

\* the scan of the bins above the request's own never meets a chunk smaller
\* than the request: the assertion of the scan holds
C25_ScanMeetsNoSmaller ==
  (last.op = "malloc") => ~last.afail

(* ------------------------- C26 ----------------------------------------- *)

\* the sizes of the chunks of the sequence q in state s are in non-decreasing
\* order
Ascending(s, q) ==
  \A k \in 1 .. (Len(q) - 1) : chunksize(s, q[k]) <= chunksize(s, q[k + 1])

\* C26: between calls every chunk of a normal bin is in the bin of its size,
\* and the sizes of the chunks of a large bin do not increase from its head to
\* its tail.
C26_BinsIndexedAndSorted ==
  (~dead /\ av.max_fast # 0) =>
    \A i \in 2 .. (NBINS - 1) :
      /\ \A p \in Range(TailFirst(Machine, i)) : BinOf(Machine, p) = i
      /\ i >= NSMALLBINS => Ascending(Machine, TailFirst(Machine, i))

\* a large bin holds chunks of two sizes, the larger of them put there by the
\* last call, ahead of the smaller
C26_Witness ==
  /\ ~dead
  /\ last.op \in {"malloc", "realloc"}
  /\ \E i \in NSMALLBINS .. (NBINS - 1) :
       LET q == TailFirst(Machine, i)
       IN  /\ Len(q) >= 2
           /\ chunksize(Machine, q[1]) < chunksize(Machine, q[Len(q)])
           /\ q[Len(q)] \notin Range(TailFirst(Machine0, i))

(* ------------------------- C27 ----------------------------------------- *)

\* get_binmap(m, i)
get_binmap(a, i) == idx2pos(i) \in a.binmap[idx2block(i)]

\* the last call, a malloc for a small size, went to the system with fast
\* chunks pending, consolidated and started again
Reentered == in_smallbin_range(request2size(last.a1)) /\ last.ncons > 0

\* the last call was a malloc that got past its loop over the unsorted list,
\* and did not start again
PastDrain ==
  /\ last.op = "malloc"
  /\ ~REQUEST_OUT_OF_RANGE(last.a1)
  /\ have_anychunks(last.av0)
  /\ ~Done(Drained)
  /\ ~Reentered

\* the bin of state d the last call of malloc took its chunk from, or NBINS if
\* it took none from a bin
BinUsed(d) ==
  IF last.path \in {"largebin", "binscan"}
    THEN BinOf(d, mem2chunk(last.ret))
    ELSE NBINS

\* the bins of state d above the request's own and below the one used are
\* empty
NoneSkipped(d) ==
  \A j \in (bin_index(request2size(last.a1)) + 1) .. (BinUsed(d) - 1) :
    bk(d, bin_at(j)) = bin_at(j)

\* C27: between calls every normal bin that holds a chunk is marked in the
\* binmap; a mark is removed only by a call that allocates, and only from a
\* bin that is then empty; and malloc takes no chunk from a bin, or goes to
\* top, while a bin above the request's own and below the one used holds one.
C27_BinmapCoversBins ==
  (~dead /\ av.max_fast # 0) =>
    /\ \A i \in 2 .. (NBINS - 1) :
         /\ bk(Machine, bin_at(i)) # bin_at(i) => get_binmap(av, i)
         /\ (get_binmap(last.av0, i) /\ ~get_binmap(av, i)) =>
              /\ bk(Machine, bin_at(i)) = bin_at(i)
              /\ last.op \notin {"free", "none"}
    /\ (PastDrain /\ last.path # "largebin") => NoneSkipped(Drained)

\* the scan of the last call found a marked bin empty, removed its mark and
\* took a chunk from a bin above it
C27_Witness ==
  /\ ~dead
  /\ PastDrain
  /\ last.path = "binscan"
  /\ \E i \in 2 .. (NBINS - 1) :
       /\ get_binmap(last.av0, i)
       /\ ~get_binmap(av, i)
       /\ i < BinUsed(Drained)

(* ------------------------- C28 ----------------------------------------- *)

\* the last call was a malloc that reached its loop over the unsorted list
DrainCase ==
  /\ ~dead
  /\ last.op = "malloc"
  /\ ~REQUEST_OUT_OF_RANGE(last.a1)
  /\ have_anychunks(last.av0)
  /\ ~Done(AtDrain)

\* the chunks that loop took off the list of state a, leaving state d
ExaminedOf(a, d) ==
  (Range(TailFirst(a, 1)) \ Range(TailFirst(d, 1)))
    \cup (IF Done(d) THEN {mem2chunk(d.r)} ELSE {})

Examined == ExaminedOf(AtDrain, Drained)

\* the chunk p, of the size it had in state a, is in the bin of that size
InItsBin(a, p) ==
  /\ chunksize(Machine, p) = chunksize(a, p)
  /\ BinOf(a, p) >= 2
  /\ p \in Range(TailFirst(Machine, BinOf(a, p)))

\* the order of the unsorted list: a free puts its chunk, coalesced with its
\* free neighbours, at the head and leaves the others in their order, and the
\* loop of malloc takes chunks from the tail
UnsortedFifo ==
  /\ (~dead /\ last.op = "free" /\ last.av0.max_fast # 0) =>
       LET q0 == TailFirst(Machine0, 1)
           q  == TailFirst(Machine, 1)
       IN  /\ \A x, y \in Range(q0) \cap Range(q) :
                (/\ chunksize(Machine, x) = chunksize(Machine0, x)
                 /\ chunksize(Machine, y) = chunksize(Machine0, y)
                 /\ Before(q0, x, y)) => Before(q, x, y)
           /\ \A k \in 1 .. (Len(q) - 1) :
                q[k] \in Range(q0) /\ chunksize(Machine, q[k]) = chunksize(Machine0, q[k])
  /\ DrainCase =>
       \A x \in Examined : \A y \in Range(TailFirst(AtDrain, 1)) \ Examined :
         Before(TailFirst(AtDrain, 1), x, y)

\* C28: the unsorted list is first in, first out, and when malloc returns, every
\* chunk its loop took off the list is the chunk returned or is in the bin of
\* its size.
C28_ExaminedReturnedOrBinned ==
  /\ UnsortedFifo
  /\ DrainCase =>
       \A p \in Examined : last.ret = chunk2mem(p) \/ InItsBin(AtDrain, p)

\* the chunks that are free, or top, or returned by the last call
Holders ==
  Binned(Machine) \cup Range(TailFirst(Machine, 1)) \cup {av.top, mem2chunk(last.ret)}

\* the chunk p lies within one of those
Absorbed(p) ==
  \E c \in Holders : c <= p /\ p < c + chunksize(Machine, c)

\* C28, amended: as C28, or, when a small request has gone to the system with
\* fast chunks pending and malloc has consolidated and started again, the
\* chunk has been coalesced into the chunk returned, into top or into a listed
\* chunk
C28_ExaminedReturnedBinnedOrAbsorbed ==
  /\ UnsortedFifo
  /\ DrainCase =>
       \A p \in Examined :
         \/ last.ret = chunk2mem(p)
         \/ InItsBin(AtDrain, p)
         \/ (Reentered /\ Absorbed(p))

\* the loop binned a chunk, the call then consolidated, and the chunk is
\* neither returned nor in a bin
C28_Witness ==
  /\ DrainCase
  /\ Reentered
  /\ \E p \in Examined :
       /\ last.ret # chunk2mem(p)
       /\ ~InItsBin(AtDrain, p)
       /\ Absorbed(p)

\* the loop binned two chunks, and both are in their bins when malloc returns
C28_BinnedReached ==
  /\ DrainCase
  /\ \E p, q \in Examined : p # q /\ InItsBin(AtDrain, p) /\ InItsBin(AtDrain, q)

(* ------------------------- C29 ----------------------------------------- *)

\* x and y were both in bin i when the last call began, x nearer the tail, or
\* x was put there before y as far as the call shows
AheadOf(i, x, y) ==
  \/ Before(TailFirst(Machine0, i), x, y)
  \/ BinnedEarlier(i, x, y)

\* the chunk at the tail of the list of bin in state s
last_(s, bin) == bk(s, bin)

\* C29: of two chunks of a small bin the one binned earlier is nearer the
\* tail, and malloc takes the chunk at the tail, both from the request's own
\* small bin and from a small bin above it.
C29_SmallBinsFifo ==
  (~dead /\ last.op = "malloc" /\ ~REQUEST_OUT_OF_RANGE(last.a1)
     /\ have_anychunks(last.av0)) =>
    /\ \A i \in 2 .. (NSMALLBINS - 1) :
         \A x, y \in Range(TailFirst(Machine, i)) :
           AheadOf(i, x, y) => Before(TailFirst(Machine, i), x, y)
    /\ (last.path = "smallbin" /\ ~Reentered) =>
         mem2chunk(last.ret)
           = last_(Machine0, bin_at(smallbin_index(request2size(last.a1))))
    /\ (PastDrain /\ last.path = "binscan" /\ BinUsed(Drained) < NSMALLBINS) =>
         mem2chunk(last.ret) = last_(Drained, bin_at(BinUsed(Drained)))

\* malloc took from a small bin that held two chunks the one binned first
C29_Witness ==
  /\ ~dead
  /\ last.op = "malloc"
  /\ last.path = "smallbin"
  /\ LET q == TailFirst(Machine0, smallbin_index(request2size(last.a1)))
     IN  /\ Len(q) >= 2
         /\ mem2chunk(last.ret) = q[1]
         /\ TailFirst(Machine, smallbin_index(request2size(last.a1))) = Tail(q)

(* ------------------------- C30 ----------------------------------------- *)

\* the state in which the last call of malloc had tried its bins
AtTop == malloc_bins([Machine0 EXCEPT !.r = 0, !.path = ""], request2size(last.a1))

\* the last call was a malloc that entered sysmalloc in state t
EntersSysmalloc(t) ==
  /\ last.op = "malloc"
  /\ ~REQUEST_OUT_OF_RANGE(last.a1)
  /\ ~Done(t)
  /\ chunksize(t, t.av.top) < request2size(last.a1) + MINSIZE

\* the routines that allocate
Allocating ==
  {"malloc", "realloc", "memalign", "calloc", "independent_calloc",
   "independent_comalloc"}

\* C30: MORECORE and MMAP are never called while FASTCHUNKS is set: no
\* assertion of sysmalloc fails, and a malloc that enters sysmalloc with
\* FASTCHUNKS set is a small request, consolidates, and leaves FASTCHUNKS
\* clear.
C30_NoSystemCallWithFastChunks ==
  /\ ~last.fsys
  /\ ~last.afail
  /\ (EntersSysmalloc(AtTop) /\ have_fastchunks(AtTop.av)) =>
       /\ in_smallbin_range(request2size(last.a1))
       /\ last.ncons > 0
       /\ ~have_fastchunks(av)

\* a call other than malloc found fast chunks pending when top was too small,
\* consolidated, and then took memory from the system
C30_Witness ==
  /\ ~dead
  /\ last.op \in Allocating \ {"malloc"}
  /\ have_fastchunks(last.av0)
  /\ last.ncons > 0
  /\ last.nsys > 0
  /\ last.ret # 0
  /\ ~last.fsys

\* malloc entered sysmalloc with fast chunks pending, consolidated, started
\* again and then took memory from the system
C30_MallocReached ==
  /\ ~dead
  /\ EntersSysmalloc(AtTop)
  /\ have_fastchunks(AtTop.av)
  /\ last.nsys > 0
  /\ last.ret # 0

(* ------------------------- C31 ----------------------------------------- *)

\* the chunks on a fast-bin chain of state s from p
RECURSIVE FastFrom(_, _, _)
FastFrom(s, p, fuel) ==
  IF p = 0 \/ fuel = 0 THEN {}
  ELSE {p} \cup FastFrom(s, fd(s, p), fuel - 1)

\* the chunks in the fast bins of state s
FastIn(s) ==
  UNION {FastFrom(s, s.av.fastbins[i], LoopFuel) : i \in 0 .. (NFASTBINS - 1)}

\* no fast bin of a holds a chunk
FastBinsEmpty(a) == \A i \in 0 .. (NFASTBINS - 1) : a.fastbins[i] = 0

\* the chunk q of the unsorted list of state c is free and coalesced: the
\* chunk after it has PREV_INUSE clear and carries its size as foot, and
\* neither neighbour is free or top
CoalescedFree(c, q) ==
  LET n == chunk_at_offset(q, chunksize(c, q))
  IN  /\ ~prev_inuse(c, n)
      /\ prev_size(c, n) = chunksize(c, q)
      /\ prev_inuse(c, q)
      /\ n # c.av.top
      /\ inuse_bit_at_offset(c, n, chunksize(c, n))

\* the bytes of the chunk p of state s lie in the chunk q of state c
Within(s, p, c, q) ==
  q <= p /\ p + chunksize(s, p) <= q + chunksize(c, q)

\* malloc_consolidate took state s to state c
Consolidated(s, c) ==
  /\ FastBinsEmpty(c.av)
  /\ ~have_fastchunks(c.av)
  /\ \A q \in Range(TailFirst(c, 1)) : CoalescedFree(c, q)
  /\ \A p \in FastIn(s) :
       \/ \E q \in Range(TailFirst(c, 1)) : Within(s, p, c, q)
       \/ Within(s, p, c, c.av.top)

\* the state in which the last call began, the system's side included
Entry == [Machine0 EXCEPT !.os = last.os0]

\* the routines that consolidate before anything else
ConsolidatesFirst == {"malloc_trim", "mallopt"}

\* C31: whenever malloc_consolidate returns on an initialised state, every
\* fast bin is empty, FASTCHUNKS is clear, every chunk of the unsorted list is
\* free and coalesced, and every chunk that was in a fast bin lies in a chunk
\* of the unsorted list or in top; the calls that consolidate leave the fast
\* bins empty and FASTCHUNKS clear.
C31_ConsolidateEmptiesFastBins ==
  /\ (~dead /\ av.max_fast # 0 /\ ~Done(malloc_consolidate(Machine))) =>
       Consolidated(Machine, malloc_consolidate(Machine))
  /\ (~dead /\ last.op \in {"malloc", "free", "malloc_trim", "mallopt"}
        /\ last.ncons > 0) =>
       FastBinsEmpty(av) /\ ~have_fastchunks(av)

\* a call of malloc_trim has consolidated two fast chunks or more, one into
\* top and one into a chunk of the unsorted list that is larger than it
C31_Witness ==
  /\ ~dead
  /\ last.op = "malloc_trim"
  /\ last.ncons = 1
  /\ Cardinality(FastIn(Entry)) >= 2
  /\ \E p \in FastIn(Entry) :
       Within(Entry, p, malloc_consolidate(Entry),
              malloc_consolidate(Entry).av.top)
  /\ \E p \in FastIn(Entry) :
       \E q \in Range(TailFirst(malloc_consolidate(Entry), 1)) :
         /\ Within(Entry, p, malloc_consolidate(Entry), q)
         /\ chunksize(malloc_consolidate(Entry), q) > chunksize(Entry, p)

(* ------------------------- C32 ----------------------------------------- *)

\* the last call was a free of a chunk of the heap too large for a fast bin
FreeMerges ==
  /\ ~dead
  /\ last.op = "free"
  /\ last.a1 # 0
  /\ chunksize(Entry, mem2chunk(last.a1)) > last.av0.max_fast
  /\ ~chunk_is_mmapped(Entry, mem2chunk(last.a1))

\* the state that free left once it had coalesced the chunk, and the size of
\* the coalesced chunk
Merged ==
  free_coalesce(Entry, mem2chunk(last.a1), chunksize(Entry, mem2chunk(last.a1)))

\* state s with its fast chunks, if it has any, consolidated
FastConsolidated(s) == IF have_fastchunks(s.av) THEN malloc_consolidate(s) ELSE s

\* free consolidates and checks top exactly when the coalesced chunk x.size of
\* state x.st has at least limit bytes, and then calls systrim iff top has at
\* least trim_threshold bytes
TrimsFrom(x, limit) ==
  /\ have_fastchunks(x.st.av) => (last.ncons > 0 <=> x.size >= limit)
  /\ ~have_fastchunks(x.st.av) => last.ncons = 0
  /\ last.ntrim > 0 <=>
       /\ x.size >= limit
       /\ chunksize(FastConsolidated(x.st), FastConsolidated(x.st).av.top)
            >= x.st.av.trim_threshold

\* C32: free consolidates and checks top exactly when the coalesced size of
\* the freed chunk is at least half of the trim threshold in force, and then
\* calls systrim iff top has at least trim_threshold bytes.
C32_HalfOfThresholdInForce ==
  FreeMerges => TrimsFrom(Merged, last.av0.trim_threshold \div 2)

\* C32, amended: free consolidates (when FASTCHUNKS is set) and checks top
\* exactly when the coalesced size of the freed chunk is at least
\* FASTBIN_CONSOLIDATION_THRESHOLD, half of the default trim threshold whatever
\* threshold is in force, and then calls systrim iff top has at least
\* trim_threshold bytes, for the threshold in force.
C32_HalfOfDefaultThreshold ==
  FreeMerges => TrimsFrom(Merged, FASTBIN_CONSOLIDATION_THRESHOLD)

\* a free under a lowered trim threshold has consolidated and called systrim
C32_Witness ==
  /\ FreeMerges
  /\ last.av0.trim_threshold < DEFAULT_TRIM_THRESHOLD
  /\ last.ncons = 1
  /\ last.ntrim = 1

\* a free of a chunk between the two limits has neither consolidated nor
\* called systrim
C32_BelowReached ==
  /\ FreeMerges
  /\ last.av0.trim_threshold < DEFAULT_TRIM_THRESHOLD
  /\ have_fastchunks(Merged.st.av)
  /\ Merged.size >= last.av0.trim_threshold \div 2
  /\ Merged.size < FASTBIN_CONSOLIDATION_THRESHOLD
  /\ last.ncons = 0
  /\ last.ntrim = 0

(* ------------------------- C33 ----------------------------------------- *)

\* the state in which the last call, a malloc_trim, entered systrim
AtTrim == malloc_consolidate([Entry EXCEPT !.r = 0, !.path = ""])

\* the amount the statement gives: no rounding, in the integers
ExtraStated(top_size, pad, pagesz) ==
  (((top_size - pad - MINSIZE) \div pagesz) - 1) * pagesz

\* the amount with the quotient rounded up, in the arithmetic of size_t and
\* read as a long
ExtraRounded(top_size, pad, pagesz) ==
  Signed((((((top_size - pad - MINSIZE + (pagesz - 1)) % SIZE_T_MOD) \div pagesz) - 1)
            * pagesz) % SIZE_T_MOD)

\* the last call, a malloc_trim that entered systrim in state c, asked the
\* system to take back e bytes if e is positive and the break is where top
\* ends, and for nothing otherwise
Releases(c, e) ==
  LET top_end == c.av.top + chunksize(c, c.av.top)
      brk0    == last.os0.brk
  IN  /\ e <= 0 => os.brk = brk0 /\ last.ret = 0
      /\ (e > 0 /\ top_end # brk0) => os.brk = brk0 /\ last.ret = 0
      /\ (e > 0 /\ top_end = brk0) =>
           /\ os.brk = IF brk0 - e >= os.brk0 THEN brk0 - e ELSE brk0
           /\ last.ret = IF os.brk # brk0 THEN 1 ELSE 0
           /\ os.brk # brk0 => chunksize(Machine, av.top) = U(chunksize(c, c.av.top) - e)

\* the last call was a malloc_trim that returned
Trimmed == ~dead /\ last.op = "malloc_trim" /\ ~Done(AtTrim)

\* C33: systrim(pad) tries to release exactly
\* ((size(top) - pad - MINSIZE) / pagesize - 1) * pagesize bytes, and nothing
\* when that is not positive.
C33_ExtraAsStated ==
  Trimmed =>
    Releases(AtTrim, ExtraStated(chunksize(AtTrim, AtTrim.av.top), last.a1,
                                 AtTrim.av.pagesize))

\* C33, amended: systrim(pad) tries to release exactly
\* ((size(top) - pad - MINSIZE + pagesize - 1) / pagesize - 1) * pagesize
\* bytes, the expression taken in the unsigned arithmetic of size_t and its
\* value read as a signed long, and calls the system for nothing when that is
\* not positive.
C33_ExtraRoundedUp ==
  Trimmed =>
    /\ Releases(AtTrim, ExtraRounded(chunksize(AtTrim, AtTrim.av.top), last.a1,
                                     AtTrim.av.pagesize))
    /\ last.nsys = 0 <=>
         ExtraRounded(chunksize(AtTrim, AtTrim.av.top), last.a1,
                      AtTrim.av.pagesize) <= 0

\* a malloc_trim has released a positive number of bytes that the statement's
\* expression does not give
C33_Witness ==
  /\ Trimmed
  /\ last.ret = 1
  /\ last.os0.brk - os.brk
       = ExtraRounded(chunksize(AtTrim, AtTrim.av.top), last.a1, AtTrim.av.pagesize)
  /\ last.os0.brk - os.brk
       # ExtraStated(chunksize(AtTrim, AtTrim.av.top), last.a1, AtTrim.av.pagesize)

\* a malloc_trim with a pad larger than top has released nothing
C33_LargePadReached ==
  /\ Trimmed
  /\ last.a1 > chunksize(AtTrim, AtTrim.av.top)
  /\ last.a1 < SIZE_T_MOD \div 2
  /\ last.nsys = 0

(* ------------------------- C34 ----------------------------------------- *)

\* the most calls of MORECORE and MMAP one call of malloc or free makes: in
\* sysmalloc a refused MMAP, MORECORE for the space, MORECORE for the
\* correction and MORECORE(0), and three of MORECORE in systrim when the old
\* top is freed
MaxSystemCalls == 4 + 3

\* C34: every call of malloc and free ends: no loop of the call runs on, malloc
\* consolidates and starts again at most once, and the call makes at most
\* MaxSystemCalls calls of the system.
C34_CallsTerminate ==
  last.op \in {"malloc", "free"} =>
    /\ ~last.hung
    /\ last.ncons <= 1
    /\ last.nsys <= MaxSystemCalls

\* a malloc for a small size has gone to the system with fast chunks pending,
\* consolidated, started again, emptied an unsorted list of two chunks or more
\* and extended the heap
C34_Witness ==
  /\ ~dead
  /\ last.op = "malloc"
  /\ Reentered
  /\ last.ncons = 1
  /\ last.nsys >= 1
  /\ last.path = "system"
  /\ Len(TailFirst(malloc_consolidate(AtTop), 1)) >= 2

(* ------------------------- C35 ----------------------------------------- *)

\* the cap on the sizes of fast chunks, without the flag bits
get_max_fast(a) == AlignDown(a.max_fast, 4)

\* the chunks c and p of state s have a byte in common
Overlapping(s, c, p) ==
  Overlap(c, c + chunksize(s, c), p, p + chunksize(s, p))

\* the chunk p of fast bin i of state s is of the bin's size, within the cap,
\* marked in use in its successor, and whole: no other free chunk and no top
\* covers any of it
FastChunkOk(s, i, p) ==
  /\ fastbin_index(chunksize(s, p)) = i
  /\ chunksize(s, p) <= get_max_fast(s.av)
  /\ prev_inuse(s, chunk_at_offset(p, chunksize(s, p)))
  /\ \A c \in (Binned(s) \cup Range(TailFirst(s, 1)) \cup {s.av.top}
                 \cup FastIn(s)) \ {p} :
       ~Overlapping(s, c, p)

\* C35: between calls every chunk of fast bin i has fastbin_index(size) = i
\* and size <= max_fast, also after mallopt has lowered the cap; the chunk
\* after it has PREV_INUSE set, and no free chunk and no top covers any of it.
C35_FastChunksKept ==
  (~dead /\ av.max_fast # 0) =>
    \A i \in 0 .. (NFASTBINS - 1) :
      \A p \in FastFrom(Machine, av.fastbins[i], LoopFuel) :
        FastChunkOk(Machine, i, p)

\* after mallopt has lowered the cap, a chunk sits in a fast bin while the
\* chunk before it, too large for the fast bins now, has been freed by the
\* last call
C35_Witness ==
  /\ ~dead
  /\ get_max_fast(av) < request2size(DEFAULT_MXFAST)
  /\ last.op = "free"
  /\ chunksize(Entry, mem2chunk(last.a1)) > get_max_fast(av)
  /\ chunk_at_offset(mem2chunk(last.a1), chunksize(Entry, mem2chunk(last.a1)))
       \in FastIn(Machine)

\* a chunk of the largest fast size sits in the last fast bin
C35_LastBinReached ==
  /\ ~dead
  /\ av.fastbins[NFASTBINS - 1] # 0

(* ------------------------- C36 ----------------------------------------- *)

\* the chunks from p on, up to and including top or up to a pair of
\* fenceposts; 0 stands for a chunk too small to be one, or for a run that
\* does not end
RECURSIVE RunChunks(_, _)
RunChunks(p, fuel) ==
  IF fuel = 0 THEN <<0>>
  ELSE IF p = av.top THEN <<p>>
  ELSE IF chunksize(Machine, p) = SIZE_SZ THEN <<>>
  ELSE IF chunksize(Machine, p) < MINSIZE THEN <<0>>
  ELSE <<p>> \o RunChunks(p + chunksize(Machine, p), fuel - 1)

\* the chunks of all runs
Tiles == UNION {Range(RunChunks(p, LoopFuel)) : p \in RunStarts}

\* the chunks of a fast-bin chain from p, in order
RECURSIVE FastSeq(_, _)
FastSeq(p, fuel) ==
  IF p = 0 \/ fuel = 0 THEN <<>>
  ELSE <<p>> \o FastSeq(fd(Machine, p), fuel - 1)

\* the chunks of the fast bins from bin i on, one entry for each link
RECURSIVE FastListed(_)
FastListed(i) ==
  IF i = NFASTBINS THEN <<>>
  ELSE FastSeq(av.fastbins[i], LoopFuel) \o FastListed(i + 1)

\* the chunks of the unsorted list and the bins from bin i on, one entry for
\* each link
RECURSIVE BinListed(_)
BinListed(i) ==
  IF i = NBINS THEN <<>>
  ELSE IF bk(Machine, bin_at(i)) = bin_at(i) THEN BinListed(i + 1)
  ELSE TailFirst(Machine, i) \o BinListed(i + 1)

\* how often p occurs in the sequence q
Count(q, p) == Cardinality({k \in 1 .. Len(q) : q[k] = p})

\* every chunk of tiles other than top is held or occurs once in listed, top
\* is neither, and every chunk held or listed is one of tiles
ListedOnce(tiles, listed) ==
  /\ 0 \notin tiles
  /\ av.top \in tiles
  /\ \A p \in tiles \ {av.top} :
       Count(listed, p) = IF chunk2mem(p) \in DOMAIN live THEN 0 ELSE 1
  /\ Count(listed, av.top) = 0
  /\ chunk2mem(av.top) \notin DOMAIN live
  /\ Range(listed) \subseteq tiles

\* the chunks the client holds that lie in the heap
HeldChunks == {mem2chunk(m) : m \in DOMAIN live \ MappedLive}

\* C36: between calls the chunks tile every region of the heap: each run of
\* chunks from the start of a region ends with top or with fenceposts, every
\* chunk of a run other than top is either
\* held by the client or linked in exactly one list, and every chunk held or
\* linked is a chunk of a run.
C36_TiledAndListedOnce ==
  (~dead /\ av.max_fast # 0 /\ av.top # initial_top) =>
    /\ ListedOnce(Tiles, FastListed(0) \o BinListed(1))
    /\ HeldChunks \subseteq Tiles

(* ------------------------- C38 ----------------------------------------- *)

\* C38: once the heap has been extended, between calls top has at least
\* MINSIZE bytes and PREV_INUSE set, whatever calls of malloc, realloc, free
\* and malloc_trim, with whatever pad, have been made, and the assertion at
\* the entry of sysmalloc holds.
C38_TopAtLeastMinsize ==
  /\ (~dead /\ av.max_fast # 0 /\ av.top # initial_top) =>
       /\ chunksize(Machine, av.top) >= MINSIZE
       /\ prev_inuse(Machine, av.top)
  /\ last.op \in {"malloc", "realloc"} => ~last.afail

\* a malloc_trim with a pad larger than top that does not wrap around has left
\* top as it was
C38_LargePadReached ==
  /\ ~dead
  /\ last.op = "malloc_trim"
  /\ last.a1 > chunksize(Entry, last.av0.top)
  /\ last.a1 < SIZE_T_MOD \div 2
  /\ last.av0.top # initial_top
  /\ last.av0.top # 0
  /\ chunksize(Machine, av.top) = chunksize(Entry, last.av0.top)

\* a malloc has failed to extend the heap
C38_FailedExtensionReached ==
  /\ ~dead
  /\ last.op = "malloc"
  /\ last.ret = 0
  /\ last.nsys > 0
  /\ last.av0.top # initial_top
  /\ last.av0.top # 0

(* ------------------------- C37 ----------------------------------------- *)

\* C37: whatever cap mallopt has set, a call that consolidates scans fast
\* bins 0 .. NFASTBINS - 1 only: the index of the last bin it scans,
\* fastbin_index(max_fast), is an index of the array, and the scan does not
\* leave the array.
C37_ScanWithinArray ==
  (last.op \in ConsolidatesFirst /\ last.av0.max_fast # 0) =>
    /\ fastbin_index(last.av0.max_fast) < NFASTBINS
    /\ ~malloc_consolidate(Entry).fault

\* a call has consolidated under the greatest cap, scanning up to the last
\* fast bin
C37_GreatestCapReached ==
  /\ ~dead
  /\ last.op \in ConsolidatesFirst
  /\ get_max_fast(last.av0) = request2size(MAX_FAST_SIZE)
  /\ fastbin_index(last.av0.max_fast) = NFASTBINS - 1
  /\ last.av0.fastbins[NFASTBINS - 1] # 0
  /\ FastBinsEmpty(av)

(* ------------------------- C39 ----------------------------------------- *)

\* the unsorted list and the bins of state s hold no chunk
BinsEmpty(s) == \A i \in 1 .. (NBINS - 1) : bk(s, bin_at(i)) = bin_at(i)

\* the flags of state s cover its lists
FlagsCover(s) ==
  /\ ~FastBinsEmpty(s.av) => have_fastchunks(s.av)
  /\ (~FastBinsEmpty(s.av) \/ ~BinsEmpty(s)) => have_anychunks(s.av)

\* the last call was a malloc of a request in range made in an initialised
\* state
MallocInRange ==
  /\ ~dead
  /\ last.op = "malloc"
  /\ ~REQUEST_OUT_OF_RANGE(last.a1)
  /\ last.av0.max_fast # 0

\* C39: between calls FASTCHUNKS is set if a fast bin holds a chunk, and
\* ANYCHUNKS is set if a fast bin, the unsorted list or a bin holds a chunk;
\* so a malloc that finds ANYCHUNKS clear and goes straight to top passes over
\* no free chunk, and a malloc for a large size leaves no chunk in a fast bin.
C39_FlagsCoverLists ==
  /\ (~dead /\ av.max_fast # 0) => FlagsCover(Machine)
  /\ (MallocInRange /\ ~have_anychunks(last.av0)) =>
       /\ FastBinsEmpty(last.av0) /\ BinsEmpty(Entry)
       /\ last.path \in {"top", "system", "mmap", ""}
  /\ (MallocInRange /\ ~in_smallbin_range(request2size(last.a1))) =>
       FastBinsEmpty(av)

\* a malloc for a large size has found chunks in the fast bins and left none
C39_Witness ==
  /\ MallocInRange
  /\ ~in_smallbin_range(request2size(last.a1))
  /\ ~FastBinsEmpty(last.av0)
  /\ have_fastchunks(last.av0)
  /\ last.ncons = 1
  /\ FastBinsEmpty(av)

\* a malloc has found ANYCHUNKS clear and split top
C39_ShortcutReached ==
  /\ MallocInRange
  /\ ~have_anychunks(last.av0)
  /\ last.path = "top"

\* chunks sit in a fast bin, in the unsorted list and in a bin at once
C39_AllListsReached ==
  /\ ~dead
  /\ ~FastBinsEmpty(av)
  /\ bk(Machine, unsorted_chunks) # unsorted_chunks
  /\ \E i \in 2 .. (NBINS - 1) : bk(Machine, bin_at(i)) # bin_at(i)

(* ------------------------- C40 ----------------------------------------- *)

\* C40: memalign returns for every alignment; the loop that rounds an
\* alignment that is not a power of two up to one always ends, also for an
\* alignment above the greatest power of two of the size type.
C40_AlignTerminates == last.op = "memalign" => ~last.hung

\* an alignment that is not a power of two has been rounded up and served
C40_RoundedReached ==
  /\ ~dead
  /\ last.op = "memalign"
  /\ last.a1 = 48
  /\ last.ret # 0
  /\ last.ret % 64 = 0
  /\ ~last.hung

\* the greatest power of two itself needs no rounding and is refused for
\* lack of memory
C40_GreatestPowerReached ==
  /\ last.op = "memalign"
  /\ last.a1 = SIZE_T_MOD \div 2
  /\ last.ret = 0
  /\ ~last.hung

====
